---- MODULE Spec2Model ----
(***************************************************************************)
(* The request-execution pipeline of zlient's HttpClient                   *)
(* (src/lib/http/HttpClient.ts): one client instance, one logical          *)
(* request(method, path, body, options) followed through auth, the         *)
(* pre-send hooks, the attempts of doFetch, the retry loop of withRetry    *)
(* and the timeout timer.  Every action is one synchronous segment of the  *)
(* async code, from one await to the next.                                 *)
(*                                                                         *)
(* The specifications share the variables and the actions:                 *)
(*   Spec       - clients over the retry, timeout and hook configurations, *)
(*                one request with no body and no options but the signal;  *)
(*   SpecData   - one client configuration, the request drawn over base    *)
(*                URL keys, queries, headers, bodies and auth providers;   *)
(*   SpecClient - the constructor over valid and invalid options, then     *)
(*                setAuth at any moment of one request;                    *)
(*   SpecPure   - toQueryString, ApiKeyAuth and BearerTokenAuth called on  *)
(*                their own, over bounded arguments;                       *)
(*   SpecEndpoint - BaseEndpoint.call around one request of the client;    *)
(*   SpecPolicy - clients whose retry option carries a shouldRetry;         *)
(*   SpecMetrics - one InMemoryMetricsCollector (src/lib/metrics.ts);       *)
(*   SpecConcurrent - several requests of one client in progress at once,   *)
(*                their header objects kept by reference;                   *)
(*   SpecShorthand - get, post, put, patch, delete around one request;      *)
(*   SpecLive   - Spec's actions under weak fairness of what is awaited.    *)
(***************************************************************************)
EXTENDS Integers, Sequences, FiniteSets, TLC

\* ------------------------------------------------------------------ bounds
\* retry.maxRetries is drawn from 0..MaxRetriesBound
MaxRetriesBound == 2
\* the hook lists hold 0 or MaxHooks hooks
MaxHooks == 2
\* Math.random() is drawn from {0/RandSteps, ..., (RandSteps-1)/RandSteps}
RandSteps == 2
\* entries of a query argument handed to toQueryString
MaxQueryEntries == 2
\* consecutive apply() calls made on one BearerTokenAuth
MaxApplies == 2
\* collect() calls made on one InMemoryMetricsCollector
MaxCollects == 3
\* maxEntries of a collector is drawn from 0..MaxEntriesBound and the default
MaxEntriesBound == 2
\* request() calls in progress at once on one client
MaxRequests == 2
\* bits of the significand of a number; the binary64 numbers of the
\* language have 53, the model keeps the rounding rule on a narrower one
MantissaBits == 20

\* ------------------------------------------------------- program constants
DefaultMaxRetries == 2
DefaultBaseDelayMs == 250
\* jitter factors are kept in percent: 0.2 is 20
DefaultJitterPct == 20
\* the `jitter = 0.2` default of withRetry's destructuring
WithRetryJitterPct == 20
\* constructor(maxEntries = 1000) of InMemoryMetricsCollector
DefaultMaxEntries == 1000

\* HTTPMethod of types.ts
Methods == {"GET", "POST", "PUT", "PATCH", "DELETE", "HEAD", "OPTIONS"}

\* response statuses the fetch implementation may resolve with
Statuses == {200, 404, 499, 500}

\* Response.ok
ResOk(status) == status >= 200 /\ status <= 299

\* ------------------------------------------------------------- error values
\* An error value: its class, its `name` property, whether it is an object
\* (typeof error === 'object'), whether it is truthy, its ApiError status
\* (0: undefined), its ApiError details, and the attempt that created it.
NoError ==
    [cls |-> "none", name |-> "", obj |-> FALSE, truthy |-> FALSE,
     status |-> 0, details |-> "", at |-> 0]

\* new ApiError(`HTTP ${res.status}: ...`, {status, details}) ; name = 'ApiError'
ApiError(status, details, at) ==
    [cls |-> "ApiError", name |-> "ApiError", obj |-> TRUE, truthy |-> TRUE,
     status |-> status, details |-> details, at |-> at]

\* the rejection of fetch on a transport failure: a TypeError, no response
NetworkError(at) ==
    [cls |-> "TypeError", name |-> "TypeError", obj |-> TRUE, truthy |-> TRUE,
     status |-> 0, details |-> "", at |-> at]

\* the error the timeout timer builds: new Error('Request timeout'), name 'TimeoutError'
TimeoutError(at) ==
    [cls |-> "Error", name |-> "TimeoutError", obj |-> TRUE, truthy |-> TRUE,
     status |-> 0, details |-> "", at |-> at]

\* the reasons a caller may give to AbortController.abort(reason):
\*  "default": no reason, the signal's reason is a DOMException named AbortError
\*  "error"  : abort(new Error('stop')), an Error named 'Error'
\*  "string" : abort('stop'), a non-object truthy reason
AbortReasons == {"default", "error", "string"}

AbortReasonValue(kind) ==
    CASE kind = "default" ->
           [cls |-> "DOMException", name |-> "AbortError", obj |-> TRUE,
            truthy |-> TRUE, status |-> 0, details |-> "", at |-> 0]
      [] kind = "error" ->
           [cls |-> "Error", name |-> "Error", obj |-> TRUE,
            truthy |-> TRUE, status |-> 0, details |-> "", at |-> 0]
      [] OTHER ->
           [cls |-> "string", name |-> "", obj |-> FALSE,
            truthy |-> TRUE, status |-> 0, details |-> "", at |-> 0]

\* an Error raised by a caller-supplied hook
HookError(at) ==
    [cls |-> "HookError", name |-> "Error", obj |-> TRUE, truthy |-> TRUE,
     status |-> 0, details |-> "", at |-> at]

\* the SyntaxError of res.json() on a malformed body
DecodeError(at) ==
    [cls |-> "SyntaxError", name |-> "SyntaxError", obj |-> TRUE, truthy |-> TRUE,
     status |-> 0, details |-> "", at |-> at]

\* new Error('BearerTokenAuth: token is empty or undefined')
AuthError ==
    [cls |-> "AuthError", name |-> "Error", obj |-> TRUE, truthy |-> TRUE,
     status |-> 0, details |-> "", at |-> 0]

\* ------------------------------------------------------------ configuration
\* opts.retry ?? {maxRetries: 2, baseDelayMs: 250, jitter: 0.2, retryMethods: ['GET','HEAD']}
DefaultRetry ==
    [maxRetries |-> DefaultMaxRetries, baseDelayMs |-> DefaultBaseDelayMs,
     hasJitter |-> TRUE, jitterPct |-> DefaultJitterPct,
     hasRetryMethods |-> TRUE, retryMethods |-> {"GET", "HEAD"}]

\* the (baseDelayMs, jitter) pairs a supplied retry option is drawn from;
\* hasJitter = FALSE is a RetryStrategy without the optional jitter field
RetryTimings ==
    { [baseDelayMs |-> 250, hasJitter |-> FALSE, jitterPct |-> 0],
      [baseDelayMs |-> 100, hasJitter |-> TRUE,  jitterPct |-> 0],
      [baseDelayMs |-> 1,   hasJitter |-> TRUE,  jitterPct |-> 100] }

\* the retryMethods a supplied retry option is drawn from;
\* hasRetryMethods = FALSE is a RetryStrategy without the optional field
RetryMethodChoices ==
    { [hasRetryMethods |-> FALSE, retryMethods |-> {}],
      [hasRetryMethods |-> TRUE,  retryMethods |-> {"GET", "HEAD"}],
      [hasRetryMethods |-> TRUE,  retryMethods |-> {"GET", "POST", "DELETE"}] }

SuppliedRetries ==
    { [maxRetries |-> n, baseDelayMs |-> t.baseDelayMs,
       hasJitter |-> t.hasJitter, jitterPct |-> t.jitterPct,
       hasRetryMethods |-> m.hasRetryMethods, retryMethods |-> m.retryMethods] :
         n \in 0..MaxRetriesBound, t \in RetryTimings, m \in RetryMethodChoices }

\* the constructor's validation of the retry option
RetryValidJitterUnbounded(r) ==
    /\ ~(r.maxRetries < 0)
    /\ ~(r.baseDelayMs < 0)
    /\ ~(r.hasJitter /\ r.jitterPct < 0)
RetryValid(r) ==
    /\ ~(r.maxRetries < 0)
    /\ ~(r.baseDelayMs < 0)
    /\ ~(r.hasJitter /\ (r.jitterPct < 0 \/ r.jitterPct > 100))

\* opts.timeout?.requestTimeoutMs: 0 stands for "not configured" (falsy either way)
TimeoutChoices == {0, 5000}

\* opts.interceptors: the number of beforeRequest and afterResponse hooks
HookChoices ==
    { [before |-> 0, after |-> 0], [before |-> MaxHooks, after |-> MaxHooks] }

\* opts.auth ?? new NoAuth()
AuthChoices == {"NoAuth", "BearerTokenAuth"}

\* ------------------------------------------------------------ request data
\* A string that takes part in a URL is a sequence of pieces: literal text,
\* or one name=value pair of a query string.
Lit(text) == [k |-> text, v |-> "", param |-> FALSE]
Param(name, value) == [k |-> name, v |-> value, param |-> TRUE]

\* the value `undefined` of a query record entry
Undefined == "<undefined>"

\* URLSearchParams.toString(): the pairs joined by "&"
RECURSIVE JoinParams(_)
JoinParams(ps) ==
    IF Len(ps) = 0 THEN <<>>
    ELSE IF Len(ps) = 1 THEN <<ps[1]>>
    ELSE <<ps[1], Lit("&")>> \o JoinParams(Tail(ps))

\* toQueryString(q) of types.ts; q.kind is "none" (no query), "params" (a
\* URLSearchParams) or "record" (entries with an undefined value are skipped)
ToQueryStringKeepsUndefined(q) ==
    IF q.kind = "none" \/ q.entries = <<>> THEN <<>>
    ELSE <<Lit("?")>> \o JoinParams(q.entries)
ToQueryStringEmptyOnUndefined(q) ==
    IF q.kind = "none" \/ q.entries = <<>> THEN <<>>
    ELSE IF \E i \in 1..Len(q.entries) : q.entries[i].v = Undefined THEN <<>>
    ELSE <<Lit("?")>> \o JoinParams(q.entries)
ToQueryString(q) ==
    IF q.kind = "none" THEN <<>>
    ELSE LET params == IF q.kind = "params" THEN q.entries
                       ELSE SelectSeq(q.entries, LAMBDA e : e.v # Undefined)
         IN  IF params = <<>> THEN <<>> ELSE <<Lit("?")>> \o JoinParams(params)

\* new URL(url): the position of the "?" that starts the query, the text
\* before it, and the pairs after it (url.searchParams)
QueryStart(u) ==
    IF \E i \in 1..Len(u) : u[i] = Lit("?")
      THEN CHOOSE i \in 1..Len(u) :
             u[i] = Lit("?") /\ \A j \in 1..(i - 1) : u[j] # Lit("?")
      ELSE Len(u) + 1
UrlBeforeQuery(u) == SubSeq(u, 1, QueryStart(u) - 1)
SearchParams(u) ==
    SelectSeq(SubSeq(u, QueryStart(u) + 1, Len(u)), LAMBDA t : t.param)

\* URLSearchParams.set(name, value): the first pair called name takes the
\* value and the other pairs called name are removed; appended when absent
SearchParamsSetAppends(ps, name, value) == Append(ps, Param(name, value))
SearchParamsSet(ps, name, value) ==
    LET hits == {i \in 1..Len(ps) : ps[i].k = name}
    IN  IF hits = {} THEN Append(ps, Param(name, value))
        ELSE LET first == CHOOSE i \in hits : \A j \in hits : i <= j
                 marked == [i \in 1..Len(ps) |->
                              IF i = first THEN Param(name, value)
                              ELSE IF ps[i].k = name THEN Lit("") ELSE ps[i]]
             IN  SelectSeq(marked, LAMBDA t : t.param)

\* URL.toString() of a URL with these searchParams
UrlToString(beforeQuery, ps) ==
    beforeQuery \o (IF ps = <<>> THEN <<>> ELSE <<Lit("?")>> \o JoinParams(ps))

\* url.replace(/\/$/, ''): one trailing slash removed
StripTrailingSlash(u) ==
    IF Len(u) > 0 /\ u[Len(u)] = Lit("/") THEN SubSeq(u, 1, Len(u) - 1) ELSE u

\* a headers object is a function from header names to values; {...a, ...b}
HeaderMergeFirstWins(a, b) ==
    [k \in DOMAIN a \cup DOMAIN b |-> IF k \in DOMAIN a THEN a[k] ELSE b[k]]
HeaderMerge(a, b) ==
    [k \in DOMAIN a \cup DOMAIN b |-> IF k \in DOMAIN b THEN b[k] ELSE a[k]]

\* the object with no keys
NoHeaders == [k \in {} |-> ""]

\* opts.headers ?? {'Content-Type': 'application/json'}
DefaultHeaders == [k \in {"Content-Type"} |-> "application/json"]

\* headers['Content-Type']?.includes('json')
IsJsonContentType(h) ==
    "Content-Type" \in DOMAIN h /\ h["Content-Type"] \in {"application/json"}

\* the body argument: undefined, or a value to serialise
NoBody == "<undefined>"

\* body != null ? (json ? JSON.stringify(body) : String(body)) : undefined
SerializeBody(b, h) ==
    IF b # NoBody
      THEN IF IsJsonContentType(h) THEN "JSON.stringify(" \o b \o ")"
                                   ELSE "String(" \o b \o ")"
      ELSE NoBody

\* ---------------------------------------------------------- auth providers
\* NoAuth, BearerTokenAuth(getToken), ApiKeyAuth({header, value}) and
\* ApiKeyAuth({query, value}) of auth.ts
AuthProviders ==
    {"NoAuth", "BearerTokenAuth", "ApiKeyAuth.header", "ApiKeyAuth.query"}

\* the options the two ApiKeyAuth providers were built with, and the token
\* getToken() produces when it produces one
ApiKeyHeader == "X-API-Key"
ApiKeyQuery == "api_key"
ApiKeyValue == "secret"
BearerToken == "tok"

\* the truthiness of an optional string: undefined and '' are falsy
Truthy(x) == x # Undefined /\ x # ""

\* new ApiKeyAuth(opts): the message of the Error the constructor throws,
\* "" when it returns
ApiKeyAuthCtorAllowsBoth(o) ==
    IF ~Truthy(o.header) /\ ~Truthy(o.query)
      THEN "ApiKeyAuth requires either \"header\" or \"query\" option"
      ELSE ""
ApiKeyAuthCtorFailure(o) ==
    IF ~Truthy(o.header) /\ ~Truthy(o.query)
      THEN "ApiKeyAuth requires either \"header\" or \"query\" option"
    ELSE IF Truthy(o.header) /\ Truthy(o.query)
      THEN "ApiKeyAuth cannot use both \"header\" and \"query\" options"
    ELSE ""

\* the branch apply() of a constructed ApiKeyAuth takes:
\* `if (this.opts.header) ... else if (this.opts.query) ...`
ApiKeyAuthProvider(o) ==
    IF Truthy(o.header) THEN "ApiKeyAuth.header"
    ELSE IF Truthy(o.query) THEN "ApiKeyAuth.query"
    ELSE "NoAuth"

\* `await this.getToken()` of the n-th apply(): what the n-th call of the
\* token source produces; tokens lists what the source produces call by call
GetTokenCached(tokens, n) == tokens[1]
GetToken(tokens, n) == tokens[n]

\* BearerTokenAuth.apply after a truthy token:
\* init.headers = {...init.headers, Authorization: `Bearer ${token}`}
BearerHeaders(h, token) ==
    HeaderMerge(h, [k \in {"Authorization"} |-> "Bearer " \o token])

\* what apply() makes of init.headers
AuthHeaders(provider, h) ==
    CASE provider = "ApiKeyAuth.header" ->
           HeaderMerge(h, [k \in {ApiKeyHeader} |-> ApiKeyValue])
      [] provider = "BearerTokenAuth" -> BearerHeaders(h, BearerToken)
      [] OTHER -> h

\* what apply() leaves in init.__urlOverride; the empty string stands for
\* the field not being set (falsy either way)
AuthUrlOverride(provider, u) ==
    IF provider = "ApiKeyAuth.query"
      THEN UrlToString(UrlBeforeQuery(u),
                       SearchParamsSet(SearchParams(u), ApiKeyQuery, ApiKeyValue))
      ELSE <<>>

\* ------------------------------------------------------ more error values
\* new Error(`Unknown baseUrl key: "${k}". Available keys: ...`)
UnknownBaseUrlKeyError ==
    [cls |-> "UnknownBaseUrlKey", name |-> "Error", obj |-> TRUE, truthy |-> TRUE,
     status |-> 0, details |-> "", at |-> 0]

\* the TypeError of `new Request(url, init)` for a GET or HEAD init with a body
RequestTypeError(at) ==
    [cls |-> "RequestTypeError", name |-> "TypeError", obj |-> TRUE, truthy |-> TRUE,
     status |-> 0, details |-> "", at |-> at]

\* parsed.error of a failed requestSchema.safeParse(args): a ZodError
ZodError ==
    [cls |-> "ZodError", name |-> "ZodError", obj |-> TRUE, truthy |-> TRUE,
     status |-> 0, details |-> "", at |-> 0]

\* new ApiError('Response validation failed', { zodError: res.error })
ResponseValidationError ==
    [cls |-> "ApiError", name |-> "ApiError", obj |-> TRUE, truthy |-> TRUE,
     status |-> 0, details |-> "", at |-> 0, zodError |-> ZodError]

\* an Error thrown by the constructor, with its message
ConfigError(message) ==
    [cls |-> "ConfigError", name |-> "Error", obj |-> TRUE, truthy |-> TRUE,
     status |-> 0, details |-> message, at |-> 0]

\* ------------------------------------------------------- sample request data
\* a base-URL map: no trailing slash, one trailing slash, two trailing slashes
SampleBaseUrls ==
    [default |-> <<Lit("https://a.test")>>,
     v2 |-> <<Lit("https://b.test"), Lit("/")>>,
     v3 |-> <<Lit("https://c.test"), Lit("/"), Lit("/")>>]

\* options.baseUrlKey: "" stands for the key not being given (falsy either way)
BaseUrlKeyChoices == {"", "v2", "v3", "nope"}

\* the path argument
PathArg == <<Lit("/users")>>

\* options.query
NoQuery == [kind |-> "none", entries |-> <<>>]
QueryChoices ==
    { NoQuery,
      [kind |-> "record",
       entries |-> <<Param("a", "1"), Param("b", Undefined)>>],
      [kind |-> "params",
       entries |-> <<Param(ApiKeyQuery, "old"), Param("a", "1"),
                     Param(ApiKeyQuery, "older")>>] }

\* opts.headers of a client that supplies them
SampleClientHeaders ==
    [k \in {"Content-Type", "X-Client", "X-Trace", "Authorization", ApiKeyHeader} |->
       IF k = "Content-Type" THEN "application/json" ELSE "client"]

\* options.headers: absent, or overriding some of the client's and adding one
CallHeaderChoices ==
    { NoHeaders,
      [k \in {"Content-Type", "X-Trace", "Authorization", ApiKeyHeader, "X-Call"} |->
         IF k = "Content-Type" THEN "text/plain" ELSE "call"] }

\* the body argument
BodyChoices == {NoBody, "{a:1}"}

\* options with nothing in it
NoOptions == [baseUrlKey |-> "", query |-> NoQuery, headers |-> NoHeaders]

\* the sequences of at most n elements of S
SeqsUpTo(S, n) == UNION {[1..m -> S] : m \in 0..n}

\* the query arguments toQueryString is called with: none, a record (keys
\* are distinct; a value may be undefined or the empty string) or a
\* URLSearchParams (names may repeat, values are strings)
QueryKeys == {"a", "b", "c"}
QueryInputs ==
    {NoQuery}
    \cup { [kind |-> "record", entries |-> es] :
             es \in { e \in SeqsUpTo({Param(k, v) : k \in QueryKeys,
                                                    v \in {"1", "", Undefined}},
                                      MaxQueryEntries) :
                        \A i, j \in 1..Len(e) : e[i].k = e[j].k => i = j } }
    \cup { [kind |-> "params", entries |-> es] :
             es \in SeqsUpTo({Param(k, v) : k \in QueryKeys, v \in {"1", ""}},
                             MaxQueryEntries) }

\* the options new ApiKeyAuth is called with: each of header and query is
\* absent, the empty string, or a name
ApiKeyAuthOptions ==
    [header : {Undefined, "", ApiKeyHeader}, query : {Undefined, "", ApiKeyQuery}]

\* the url and the init.headers apply() is called with
ApplyUrls ==
    { <<Lit("https://a.test"), Lit("/users")>>,
      <<Lit("https://a.test"), Lit("/users"), Lit("?"),
        Param(ApiKeyQuery, "old"), Lit("&"), Param("a", "1")>> }
ApplyHeaders == {NoHeaders, SampleClientHeaders}

\* what a token source may produce
TokenValues == {Undefined, "", "t1", "t2"}

\* the args of BaseEndpoint.call as a body, and the `query` field of args
ArgsBody == "{a:1}"
ArgsQueryChoices ==
    { NoQuery,
      [kind |-> "record", entries |-> <<>>],
      [kind |-> "record", entries |-> <<Param("a", "2"), Param("c", Undefined)>>] }

\* no call of a library function is under way, nothing has come of one
NoCall == [fn |-> "none"]
NoResult == [state |-> "none"]

\* no collector has been constructed
NoCollector == [maxEntries |-> 0, metrics |-> <<>>]

VARIABLES
    \* ---- fields of the client
    retry,          \* this.retry
    timeoutMs,      \* this.timeoutMs (0: undefined)
    interceptors,   \* this.interceptors, as the lengths of the two hook lists
    auth,           \* this.auth
    baseUrls,       \* this.baseUrls
    headers,        \* this.headers
    \* ---- the argument of the constructor
    opts,           \* opts, while the constructor runs
    \* ---- arguments and locals of request()
    method,         \* the method argument
    hasSignal,      \* options?.signal is supplied
    options,        \* options: baseUrlKey, query, headers
    body,           \* the body argument
    url,            \* the local `url`
    init,           \* the local `init`: headers, body, __urlOverride
    pc,             \* the await the request is suspended at
    attempt,        \* withRetry's `attempt`
    hookIdx,        \* position in the hook list being run (1-based)
    resStatus,      \* res.status of the response of the current attempt
    timerArmed,     \* the attempt's setTimeout is pending
    ctrlAborted,    \* controller.signal.aborted
    ctrlReason,     \* controller.signal.reason
    callerAborted,  \* options.signal.aborted
    callerReason,   \* options.signal.reason
    delay,          \* the argument of sleep(), in units of 1/(100*RandSteps) ms
    thrown,         \* the error request() rejected with
    metrics,        \* the records handed to this.metrics.collect, in order
    \* ---- history
    attempts,       \* number of doFetch invocations (network attempts) so far
    inFlight,       \* doFetch invocations not yet settled
    authCalls,      \* number of auth.apply invocations
    beforeCalls,    \* number of pre-send hook invocations
    raised,         \* the error raised inside the last failed attempt
    startAborted,   \* the last attempt started with controller.signal aborted
    abortedAt,      \* attempt during whose fetch the caller aborted (0: none)
    retryGiven,     \* opts.retry was supplied to the constructor
    sent,           \* the Requests handed to fetch: (url, headers, body)
    hookUrls,       \* the urls handed to the pre-send hooks
    authAtCall,     \* this.auth at the moment request() was called
    appliedAuth,    \* the provider whose apply() this request invoked
    thrownKeys,     \* the keys listed in the message of `thrown`
    \* ---- calls of the library outside HttpClient
    call,           \* the function called and its arguments
    result,         \* what has come of the call so far
    \* ---- objects beside the one request
    collector,      \* an InMemoryMetricsCollector and what its caller holds
    heap,           \* headers objects by reference
    reqs            \* the locals of the concurrent requests, by request

clientVars == <<retry, timeoutMs, interceptors, auth, retryGiven>>
vars ==
    <<retry, timeoutMs, interceptors, auth, method, hasSignal, pc, attempt,
      hookIdx, resStatus, timerArmed, ctrlAborted, ctrlReason, callerAborted,
      callerReason, delay, thrown, metrics, attempts, inFlight, authCalls,
      beforeCalls, raised, startAborted, abortedAt, retryGiven,
      baseUrls, headers, opts, options, body, url, init, sent, hookUrls,
      authAtCall, appliedAuth, thrownKeys, call, result, collector, heap,
      reqs>>

\* the collector and the concurrent requests
objectVars == <<collector, heap, reqs>>

\* there is no collector and there are no concurrent requests
NoObjects ==
    /\ collector = NoCollector
    /\ heap = <<>>
    /\ reqs = <<>>

\* what only the constructor and the call of request() set
callFrame ==
    <<baseUrls, headers, opts, options, body, authAtCall, thrownKeys, call,
      result, objectVars>>
\* the locals and the history of what request() builds and hands out
wireFrame == <<url, init, sent, hookUrls>>

\* ------------------------------------------------------------- constructor
\* this.retry = opts.retry ?? {...defaults}
CtorRetry(given, r) == IF given THEN r ELSE DefaultRetry

\* the message of the first retry check that fails
RetryMessage(r) ==
    IF r.maxRetries < 0 THEN "retry.maxRetries must be non-negative"
    ELSE IF r.baseDelayMs < 0 THEN "retry.baseDelayMs must be non-negative"
    ELSE "retry.jitter must be between 0 and 1"

\* this.timeoutMs = opts.timeout?.requestTimeoutMs
CtorTimeout(o) == IF o.hasTimeout THEN o.requestTimeoutMs ELSE 0

\* opts.baseUrls has a truthy `default` entry
HasDefaultBaseUrl(o) ==
    "default" \in DOMAIN o.baseUrls.map /\ o.baseUrls.map["default"] # <<>>

\* the checks of the constructor in their order: the message of the Error
\* it throws, "" when it throws none
CtorFailure(o) ==
    IF ~o.fetch
      THEN "No fetch implementation found. Pass one via options.fetch."
    ELSE IF o.baseUrls.kind # "object"
      THEN "baseUrls must be provided and must be an object"
    ELSE IF ~HasDefaultBaseUrl(o)
      THEN "baseUrls must include a default key"
    ELSE IF ~RetryValid(CtorRetry(o.hasRetry, o.retry))
      THEN RetryMessage(CtorRetry(o.hasRetry, o.retry))
    ELSE IF o.hasTimeout /\ o.requestTimeoutMs < 0
      THEN "timeout.requestTimeoutMs must be non-negative"
    ELSE ""

\* opts.baseUrls: undefined, a string (typeof is not 'object'), an object
\* with no key, one without `default`, one whose `default` is the empty
\* string, and the sample map
BaseUrlsOptions ==
    { [kind |-> "undefined", map |-> NoHeaders],
      [kind |-> "string", map |-> NoHeaders],
      [kind |-> "object", map |-> NoHeaders],
      [kind |-> "object", map |-> [k \in {"v2"} |-> SampleBaseUrls.v2]],
      [kind |-> "object", map |-> [k \in {"default"} |-> <<>>]],
      [kind |-> "object", map |-> SampleBaseUrls] }

\* opts.retry, when given: each number below, at and above its limit
RetryOptions ==
    { [maxRetries |-> n, baseDelayMs |-> d,
       hasJitter |-> j.hasJitter, jitterPct |-> j.jitterPct,
       hasRetryMethods |-> TRUE, retryMethods |-> {"GET", "POST", "DELETE"}] :
         n \in {-1, 0, 1}, d \in {-1, 0, 100},
         j \in { [hasJitter |-> FALSE, jitterPct |-> 0],
                 [hasJitter |-> TRUE, jitterPct |-> -1],
                 [hasJitter |-> TRUE, jitterPct |-> 0],
                 [hasJitter |-> TRUE, jitterPct |-> 100],
                 [hasJitter |-> TRUE, jitterPct |-> 101] } }

\* opts.timeout
TimeoutOptions ==
    { [hasTimeout |-> FALSE, requestTimeoutMs |-> 0],
      [hasTimeout |-> TRUE, requestTimeoutMs |-> -1],
      [hasTimeout |-> TRUE, requestTimeoutMs |-> 0],
      [hasTimeout |-> TRUE, requestTimeoutMs |-> 5000] }

\* the ClientOptions a constructor call is drawn from: opts.fetch ??
\* globalThis.fetch is available or not; no headers, no auth, one hook of
\* each kind
ClientOptions ==
    { [fetch |-> f, baseUrls |-> b, hasRetry |-> r.hasRetry, retry |-> r.retry,
       hasTimeout |-> t.hasTimeout, requestTimeoutMs |-> t.requestTimeoutMs,
       interceptors |-> [before |-> 1, after |-> 1]] :
         f \in BOOLEAN, b \in BaseUrlsOptions, t \in TimeoutOptions,
         r \in { [hasRetry |-> TRUE, retry |-> x] : x \in RetryOptions }
                 \cup { [hasRetry |-> FALSE, retry |-> DefaultRetry] } }

\* the constructor has returned or thrown: its argument is gone
NoOpts ==
    [fetch |-> FALSE, baseUrls |-> [kind |-> "undefined", map |-> NoHeaders],
     hasRetry |-> FALSE, retry |-> DefaultRetry,
     hasTimeout |-> FALSE, requestTimeoutMs |-> 0,
     interceptors |-> [before |-> 0, after |-> 0]]

\* nothing has been requested yet: the locals of request() and the history
RequestInit ==
    /\ method = "GET"
    /\ hasSignal = FALSE
    /\ attempt = 0
    /\ hookIdx = 0
    /\ resStatus = 0
    /\ timerArmed = FALSE
    /\ ctrlAborted = FALSE
    /\ ctrlReason = NoError
    /\ callerAborted = FALSE
    /\ callerReason = NoError
    /\ delay = 0
    /\ thrown = NoError
    /\ thrownKeys = {}
    /\ metrics = <<>>
    /\ attempts = 0
    /\ inFlight = 0
    /\ authCalls = 0
    /\ beforeCalls = 0
    /\ raised = NoError
    /\ startAborted = FALSE
    /\ abortedAt = 0
    /\ url = <<>>
    /\ init = [headers |-> NoHeaders, body |-> NoBody, urlOverride |-> <<>>]
    /\ sent = {}
    /\ hookUrls = {}
    /\ authAtCall = "none"
    /\ appliedAuth = "none"

\* a client built with the sample base URLs and no headers, interceptors
\* drawn from HookChoices, auth from AuthChoices, and a retry and a timeout
\* option the constructor accepts; the request to come has no body and no
\* options but the signal
Init ==
    /\ \E given \in BOOLEAN :
         /\ retryGiven = given
         /\ \E r \in (IF given THEN SuppliedRetries ELSE {DefaultRetry}) :
              /\ RetryValid(CtorRetry(given, r))
              /\ retry = CtorRetry(given, r)
    /\ timeoutMs \in TimeoutChoices
    /\ interceptors \in HookChoices
    /\ auth \in AuthChoices
    /\ baseUrls = SampleBaseUrls
    /\ headers = DefaultHeaders
    /\ opts = NoOpts
    /\ options = NoOptions
    /\ body = NoBody
    /\ pc = "idle"
    /\ RequestInit
    /\ call = NoCall
    /\ result = NoResult
    /\ NoObjects


\* ------------------------------------------------------------ retry policy
\* this.retry.retryMethods?.includes(method)
InRetryMethodsDefaulted ==
    method \in (IF retry.hasRetryMethods THEN retry.retryMethods
                                         ELSE DefaultRetry.retryMethods)
InRetryMethodsUngated == TRUE
InRetryMethods == retry.hasRetryMethods /\ method \in retry.retryMethods

\* canRetry({response, error}) of request(); hasResponse is `response` being
\* given in the context object
CanRetryOnlyStatus(error, hasResponse) ==
    IF error.truthy /\ error.obj /\ error.name \in {"AbortError", "TimeoutError"}
      THEN FALSE
      ELSE error.cls = "ApiError" /\ error.status # 0 /\ error.status >= 500
CanRetryNoNameCheck(error, hasResponse) ==
    IF error.cls = "ApiError" /\ error.status # 0 /\ error.status >= 500
      THEN TRUE
      ELSE error.truthy /\ ~hasResponse
CanRetry(error, hasResponse) ==
    IF error.truthy /\ error.obj /\ error.name \in {"AbortError", "TimeoutError"}
      THEN FALSE
      ELSE IF error.cls = "ApiError" /\ error.status # 0 /\ error.status >= 500
             THEN TRUE
             ELSE error.truthy /\ ~hasResponse

\* const { maxRetries, baseDelayMs, jitter = 0.2 } = this.retry
JitterPct == IF retry.hasJitter THEN retry.jitterPct ELSE WithRetryJitterPct

\* const backoff = baseDelayMs * 2 ** attempt
BackoffDoubledEarly(att) == retry.baseDelayMs * 2 ^ (att + 1)
Backoff(att) == retry.baseDelayMs * 2 ^ att

\* backoff * j with j = 1 + (Math.random() * 2 - 1) * jitter, for
\* Math.random() = r / RandSteps, in units of 1/(100*RandSteps) ms
SleepArg(att, r) ==
    Backoff(att) * (100 * RandSteps + (2 * r - RandSteps) * JitterPct)

\* withRetry's catch: attempt >= maxRetries || !canRetry({attempt, error: err});
\* the context object never carries a response
WithRetryGivesUpNever(att, err) ==
    att < 0 \/ ~CanRetry(err, FALSE)
WithRetryGivesUpOffByOne(att, err) ==
    att > retry.maxRetries \/ ~CanRetry(err, FALSE)
WithRetryGivesUpEarly(att, err) ==
    att + 1 >= retry.maxRetries \/ ~CanRetry(err, FALSE)
WithRetryGivesUp(att, err) ==
    att >= retry.maxRetries \/ ~CanRetry(err, FALSE)

\* the model's cap on the attempts of one request: a request that sleeps has
\* made at most maxRetries <= MaxRetriesBound attempts, so the cap is never
\* met; a loop that does not give up stops at it, asleep for ever
AttemptsCap == MaxRetriesBound + 1

\* `throw error` at the end of doFetch's catch
DoFetchRethrow(error) == error

\* `throw err` of withRetry
WithRetryRethrowWrapped(err) ==
    ApiError(err.status, "wrapped", err.at)
WithRetryRethrow(err) == err

\* ------------------------------------------------------------ observability
\* the record of the catch block: status is error.status for an ApiError
FailureRecordNoDescription(error) ==
    [success |-> FALSE,
     status |-> IF error.cls = "ApiError" THEN error.status ELSE 0,
     hasError |-> FALSE]
FailureRecord(error) ==
    [success |-> FALSE,
     status |-> IF error.cls = "ApiError" THEN error.status ELSE 0,
     hasError |-> TRUE]

\* the record of the success path
SuccessRecord(status) ==
    [success |-> TRUE, status |-> status, hasError |-> FALSE]

\* ------------------------------------------------------------- cancellation
\* const signal = options?.signal ?? controller.signal
SignalAborted == IF hasSignal THEN callerAborted ELSE ctrlAborted
SignalReason == IF hasSignal THEN callerReason ELSE ctrlReason

\* if (this.timeoutMs && !options?.signal) timeoutId = setTimeout(...)
ArmsTimerIgnoresSignal == timeoutMs # 0
ArmsTimer == timeoutMs # 0 /\ ~hasSignal

\* ------------------------------------------------------ building the request
\* resolveBaseUrl(key): `key || 'default'`
BaseUrlKeyIgnored(key) == "default"
BaseUrlKey(key) == IF key = "" THEN "default" ELSE key

\* `!url` of resolveBaseUrl: the key is not in the map, or maps to ''
BaseUrlMissing(key) ==
    BaseUrlKey(key) \notin DOMAIN baseUrls \/ baseUrls[BaseUrlKey(key)] = <<>>

\* Object.keys(this.baseUrls), the keys the error message lists
AvailableKeys == DOMAIN baseUrls

\* the value resolveBaseUrl returns
ResolveBaseUrl(key) == StripTrailingSlash(baseUrls[BaseUrlKey(key)])

\* `${base}${path}${toQueryString(options?.query)}`
RequestUrl ==
    ResolveBaseUrl(options.baseUrlKey) \o PathArg \o ToQueryString(options.query)

\* { ...this.headers, ...(options?.headers ?? {}) }
RequestHeaders == HeaderMerge(headers, options.headers)

\* new Request(url, init) throws a TypeError when the init of a GET or HEAD
\* request has a body
RequestCtorThrows == method \in {"GET", "HEAD"} /\ init.body # NoBody

\* the Request built from (url, init)
NewRequest == [url |-> url, headers |-> init.headers, body |-> init.body]

\* ------------------------------------------------------- parts of an attempt
\* auth.apply and runBeforeHooks sit before doFetch is defined: entering
\* doFetch invokes neither
AttemptPreSendRepeated ==
    /\ authCalls' = authCalls + 1
    /\ beforeCalls' = beforeCalls + interceptors.before
    /\ appliedAuth' = auth
AttemptPreSendReadsAuth ==
    /\ authCalls' = authCalls
    /\ beforeCalls' = beforeCalls
    /\ appliedAuth' = auth
AttemptPreSend ==
    /\ authCalls' = authCalls
    /\ beforeCalls' = beforeCalls
    /\ appliedAuth' = appliedAuth

\* doFetch up to `await this.fetchImpl(req)`: arm the timer, build the
\* Request from (url, init) and hand it to fetch
StartAttempt ==
    /\ timerArmed' = ArmsTimer
    /\ startAborted' = ctrlAborted
    /\ attempts' = attempts + 1
    /\ inFlight' = inFlight + 1
    /\ resStatus' = 0
    /\ hookIdx' = 0
    /\ pc' = "fetch"
    /\ sent' = sent \cup {NewRequest}
    /\ AttemptPreSend

\* what the caller of doFetch does with its rejection: request() itself
\* when the method is not retry-eligible, withRetry's catch otherwise; att
\* is withRetry's `attempt`
AfterRejection(att, error) ==
    IF ~InRetryMethods
      THEN /\ pc' = "failed"
           /\ thrown' = DoFetchRethrow(error)
           /\ delay' = 0
      ELSE IF WithRetryGivesUp(att, DoFetchRethrow(error))
             THEN /\ pc' = "failed"
                  /\ thrown' = WithRetryRethrow(DoFetchRethrow(error))
                  /\ delay' = 0
             ELSE /\ pc' = "sleep"
                  /\ thrown' = thrown
                  /\ \E r \in 0..(RandSteps - 1) : delay' = SleepArg(att, r)

\* doFetch's catch and finally, followed by what its caller does
FailAttempt(error) ==
    /\ metrics' = Append(metrics, FailureRecord(error))
    /\ timerArmed' = FALSE
    /\ inFlight' = inFlight - 1
    /\ raised' = error
    /\ AfterRejection(attempt, error)

\* a doFetch whose `new Request(url, init)` throws: the timer is armed and
\* cleared, nothing is handed to fetch, the catch collects the failure and
\* the caller of doFetch gets the rejection, all in one synchronous run;
\* att is withRetry's `attempt` during this doFetch
StartAttemptRejected(att) ==
    /\ startAborted' = ctrlAborted
    /\ attempts' = attempts + 1
    /\ resStatus' = 0
    /\ hookIdx' = 0
    /\ sent' = sent
    /\ AttemptPreSend
    /\ metrics' = Append(metrics, FailureRecord(RequestTypeError(attempts + 1)))
    /\ timerArmed' = FALSE
    /\ inFlight' = inFlight
    /\ raised' = RequestTypeError(attempts + 1)
    /\ AfterRejection(att, RequestTypeError(attempts + 1))

\* doFetch's success path after the last post-receive hook, and its finally
SucceedRecordsTwice ==
    /\ metrics' = Append(Append(metrics, SuccessRecord(resStatus)),
                         FailureRecord(NoError))
    /\ timerArmed' = FALSE
    /\ inFlight' = inFlight - 1
    /\ pc' = "done"
    /\ UNCHANGED <<raised, thrown, delay>>
Succeed ==
    /\ metrics' = Append(metrics, SuccessRecord(resStatus))
    /\ timerArmed' = FALSE
    /\ inFlight' = inFlight - 1
    /\ pc' = "done"
    /\ UNCHANGED <<raised, thrown, delay>>

\* what a step inside an attempt leaves alone
attemptFrame ==
    <<retry, timeoutMs, interceptors, auth, retryGiven, method, hasSignal,
      attempt, ctrlAborted, ctrlReason, callerAborted, callerReason,
      abortedAt, attempts, authCalls, beforeCalls, startAborted,
      baseUrls, headers, opts, options, body, authAtCall, appliedAuth,
      thrownKeys, url, init, sent, hookUrls, call, result, objectVars>>

\* ------------------------------------------------------------------ actions
\* resolveBaseUrl throws in the first statement of request() after
\* Date.now(): request() rejects with nothing else done
UnknownKeyRejectedAfterAuth ==
    /\ pc' = "failed"
    /\ thrown' = UnknownBaseUrlKeyError
    /\ thrownKeys' = AvailableKeys
    /\ appliedAuth' = auth
    /\ authCalls' = authCalls + 1
    /\ UNCHANGED <<url, init>>
UnknownKeyRejected ==
    /\ pc' = "failed"
    /\ thrown' = UnknownBaseUrlKeyError
    /\ thrownKeys' = AvailableKeys
    /\ UNCHANGED <<url, init, appliedAuth, authCalls>>

\* request(method, path, body, options) up to `await this.auth.apply(...)`
Request(m, sig) ==
    /\ pc = "idle"
    /\ method' = m
    /\ hasSignal' = sig
    /\ authAtCall' = auth
    /\ IF BaseUrlMissing(options.baseUrlKey)
         THEN UnknownKeyRejected
         ELSE /\ url' = RequestUrl
              /\ init' = [headers |-> RequestHeaders,
                          body |-> SerializeBody(body, RequestHeaders),
                          urlOverride |-> <<>>]
              /\ appliedAuth' = auth
              /\ authCalls' = authCalls + 1
              /\ pc' = "auth"
              /\ UNCHANGED <<thrown, thrownKeys>>
    /\ UNCHANGED <<retry, timeoutMs, interceptors, auth, retryGiven, attempt,
                   hookIdx, resStatus, timerArmed, ctrlAborted, ctrlReason,
                   callerAborted, callerReason, delay, metrics,
                   attempts, inFlight, beforeCalls, raised, startAborted,
                   abortedAt, baseUrls, headers, opts, options, body, sent,
                   hookUrls, call, result, objectVars>>

\* `await this.auth.apply(...)` rejects: no try encloses it, so the
\* rejection is the rejection of request()
AuthRejectedSwallowed ==
    /\ pc' = "before"
    /\ hookIdx' = 1
    /\ beforeCalls' = beforeCalls + 1
    /\ thrown' = AuthError
AuthRejected ==
    /\ pc' = "failed"
    /\ thrown' = AuthError
    /\ UNCHANGED <<hookIdx, beforeCalls>>

\* auth.apply settles; tokenOk is BearerTokenAuth's getToken() producing a
\* non-empty token.  Nothing reads init between the call of apply and its
\* settling, so what apply does to init is applied here.  On success
\* runBeforeHooks starts its first hook.
AuthDone(tokenOk) ==
    /\ pc = "auth"
    /\ (appliedAuth # "BearerTokenAuth") => tokenOk
    /\ IF ~tokenOk
         THEN AuthRejected /\ UNCHANGED <<url, init, hookUrls>>
         ELSE LET override == AuthUrlOverride(appliedAuth, url)
                  \* if (init.__urlOverride) url = init.__urlOverride
                  hookUrl == IF override # <<>> THEN override ELSE url
              IN  /\ init' = [init EXCEPT
                                !.headers = AuthHeaders(appliedAuth, init.headers),
                                !.urlOverride = override]
                  /\ url' = hookUrl
                  /\ IF interceptors.before = 0
                       THEN /\ pc' = "ready"
                            /\ UNCHANGED <<hookIdx, beforeCalls, thrown, hookUrls>>
                       ELSE /\ pc' = "before"
                            /\ hookIdx' = 1
                            /\ beforeCalls' = beforeCalls + 1
                            /\ hookUrls' = hookUrls \cup {hookUrl}
                            /\ thrown' = thrown
    /\ UNCHANGED <<retry, timeoutMs, interceptors, auth, retryGiven, method,
                   hasSignal, attempt, resStatus, timerArmed, ctrlAborted,
                   ctrlReason, callerAborted, callerReason, delay, metrics,
                   attempts, inFlight, authCalls, raised, startAborted,
                   abortedAt, sent, appliedAuth>>
    /\ UNCHANGED callFrame

\* runBeforeHooks' `for (const h of beforeRequest ?? [])`: a hook is left
MoreBeforeHooksNever == FALSE
MoreBeforeHooks == hookIdx < interceptors.before

\* `await h({ url, init })` rejects: the loop, runBeforeHooks and request()
\* reject with it, no try encloses any of them
BeforeHookRejectedSkipped ==
    /\ pc' = "ready"
    /\ thrown' = HookError(0)
    /\ UNCHANGED <<hookIdx, beforeCalls, hookUrls>>
BeforeHookRejected ==
    /\ pc' = "failed"
    /\ thrown' = HookError(0)
    /\ UNCHANGED <<hookIdx, beforeCalls, hookUrls>>

\* the pre-send hook being awaited settles
BeforeHookDone(ok) ==
    /\ pc = "before"
    /\ IF ~ok
         THEN BeforeHookRejected
         ELSE IF MoreBeforeHooks
                THEN /\ hookIdx' = hookIdx + 1
                     /\ beforeCalls' = beforeCalls + 1
                     /\ hookUrls' = hookUrls \cup {url}
                     /\ UNCHANGED <<pc, thrown>>
                ELSE /\ pc' = "ready"
                     /\ UNCHANGED <<hookIdx, beforeCalls, thrown, hookUrls>>
    /\ UNCHANGED <<retry, timeoutMs, interceptors, auth, retryGiven, method,
                   hasSignal, attempt, resStatus, timerArmed, ctrlAborted,
                   ctrlReason, callerAborted, callerReason, delay, metrics,
                   attempts, inFlight, authCalls, raised, startAborted,
                   abortedAt, url, init, sent, appliedAuth>>
    /\ UNCHANGED callFrame

\* runBeforeHooks has resolved: doFetch is called for the first time, by
\* request() or by withRetry
DoFetchFirst ==
    /\ pc = "ready"
    /\ IF RequestCtorThrows
         THEN StartAttemptRejected(attempt)
         ELSE StartAttempt /\ UNCHANGED <<delay, thrown, metrics, raised>>
    /\ UNCHANGED <<retry, timeoutMs, interceptors, auth, retryGiven, method,
                   hasSignal, attempt, ctrlAborted, ctrlReason, callerAborted,
                   callerReason, abortedAt, url, init, hookUrls>>
    /\ UNCHANGED callFrame

\* fetch resolves with a response
FetchResolve(status) ==
    /\ pc = "fetch"
    /\ ~SignalAborted
    /\ resStatus' = status
    /\ pc' = IF ResOk(status) THEN "decode" ELSE "text"
    /\ UNCHANGED attemptFrame
    /\ UNCHANGED <<hookIdx, timerArmed, delay, thrown, metrics, inFlight, raised>>

\* fetch rejects: transport failure, no response
FetchReject ==
    /\ pc = "fetch"
    /\ ~SignalAborted
    /\ FailAttempt(NetworkError(attempts))
    /\ UNCHANGED attemptFrame
    /\ UNCHANGED <<hookIdx, resStatus>>

\* fetch rejects with the reason of the aborted signal
FetchAborted ==
    /\ pc = "fetch"
    /\ SignalAborted
    /\ FailAttempt(SignalReason)
    /\ UNCHANGED attemptFrame
    /\ UNCHANGED <<hookIdx, resStatus>>

\* the error of the `!res.ok` branch: the text of the body, or the
\* `Failed to read response: ...` text that the inner catch puts in its
\* place, goes into the details of the ApiError
NonOkErrorRaisesReadFailure(readOk) ==
    IF readOk THEN ApiError(resStatus, "body", attempts)
              ELSE NetworkError(attempts)
NonOkError(readOk) ==
    ApiError(resStatus, IF readOk THEN "body" ELSE "readfail", attempts)

\* res.text() of a non-2xx response settles; a failed read becomes the
\* details of the ApiError
TextDone(readOk) ==
    /\ pc = "text"
    /\ readOk => ~SignalAborted
    /\ FailAttempt(NonOkError(readOk))
    /\ UNCHANGED attemptFrame
    /\ UNCHANGED <<hookIdx, resStatus>>

\* res.json() / res.text() of a 2xx response resolves; runAfterHooks starts
\* its first hook, or the attempt succeeds when there is none
DecodeOk ==
    /\ pc = "decode"
    /\ ~SignalAborted
    /\ IF interceptors.after = 0
         THEN Succeed /\ UNCHANGED hookIdx
         ELSE /\ pc' = "after"
              /\ hookIdx' = 1
              /\ UNCHANGED <<timerArmed, delay, thrown, metrics, inFlight, raised>>
    /\ UNCHANGED attemptFrame
    /\ UNCHANGED resStatus

\* the body of a 2xx response does not decode
DecodeFail ==
    /\ pc = "decode"
    /\ ~SignalAborted
    /\ FailAttempt(DecodeError(attempts))
    /\ UNCHANGED attemptFrame
    /\ UNCHANGED <<hookIdx, resStatus>>

\* the body read of a 2xx response rejects with the reason of the aborted signal
DecodeAborted ==
    /\ pc = "decode"
    /\ SignalAborted
    /\ FailAttempt(SignalReason)
    /\ UNCHANGED attemptFrame
    /\ UNCHANGED <<hookIdx, resStatus>>

\* `await h({ request, response, parsed })` rejects inside doFetch's try:
\* the catch takes it as the failure of the attempt
AfterHookRejectedIgnored == Succeed
AfterHookRejected == FailAttempt(HookError(attempts))

\* the post-receive hook being awaited settles
AfterHookDone(ok) ==
    /\ pc = "after"
    /\ IF ~ok
         THEN AfterHookRejected /\ UNCHANGED hookIdx
         ELSE IF hookIdx < interceptors.after
                THEN /\ hookIdx' = hookIdx + 1
                     /\ UNCHANGED <<pc, timerArmed, delay, thrown, metrics,
                                    inFlight, raised>>
                ELSE Succeed /\ UNCHANGED hookIdx
    /\ UNCHANGED attemptFrame
    /\ UNCHANGED resStatus

\* the attempt's timer fires: controller.abort(timeoutError); aborting an
\* already aborted controller changes nothing
TimerFire ==
    /\ timerArmed
    /\ pc \in {"fetch", "text", "decode", "after"}
    /\ timerArmed' = FALSE
    /\ IF ctrlAborted
         THEN UNCHANGED <<ctrlAborted, ctrlReason>>
         ELSE /\ ctrlAborted' = TRUE
              /\ ctrlReason' = TimeoutError(attempts)
    /\ UNCHANGED <<retry, timeoutMs, interceptors, auth, retryGiven, method,
                   hasSignal, pc, attempt, hookIdx, resStatus, callerAborted,
                   callerReason, delay, thrown, metrics, attempts, inFlight,
                   authCalls, beforeCalls, raised, startAborted, abortedAt,
                   appliedAuth>>
    /\ UNCHANGED <<callFrame, wireFrame>>

\* the caller aborts the signal it passed in options.signal
CallerAbort(kind) ==
    /\ hasSignal
    /\ ~callerAborted
    /\ pc \notin {"idle", "done", "failed"}
    /\ callerAborted' = TRUE
    /\ callerReason' = AbortReasonValue(kind)
    /\ abortedAt' = IF pc = "fetch" THEN attempts ELSE abortedAt
    /\ UNCHANGED <<retry, timeoutMs, interceptors, auth, retryGiven, method,
                   hasSignal, pc, attempt, hookIdx, resStatus, timerArmed,
                   ctrlAborted, ctrlReason, delay, thrown, metrics, attempts,
                   inFlight, authCalls, beforeCalls, raised, startAborted,
                   appliedAuth>>
    /\ UNCHANGED <<callFrame, wireFrame>>

\* the backoff sleep of withRetry resolves: attempt++ and fn() again
SleepDone ==
    /\ pc = "sleep"
    /\ attempts <= AttemptsCap
    /\ attempt' = attempt + 1
    /\ IF RequestCtorThrows
         THEN StartAttemptRejected(attempt + 1)
         ELSE /\ delay' = 0
              /\ StartAttempt
              /\ UNCHANGED <<thrown, metrics, raised>>
    /\ UNCHANGED <<retry, timeoutMs, interceptors, auth, retryGiven, method,
                   hasSignal, ctrlAborted, ctrlReason, callerAborted,
                   callerReason, abortedAt, url, init, hookUrls>>
    /\ UNCHANGED callFrame

\* setAuth(a): this.auth = a, at any moment of the life of the client
SetAuth(a) ==
    /\ pc \notin {"new", "invalid"}
    /\ a # auth
    /\ auth' = a
    /\ UNCHANGED <<retry, timeoutMs, interceptors, retryGiven, method,
                   hasSignal, pc, attempt, hookIdx, resStatus, timerArmed,
                   ctrlAborted, ctrlReason, callerAborted, callerReason, delay,
                   thrown, metrics, attempts, inFlight, authCalls, beforeCalls,
                   raised, startAborted, abortedAt, appliedAuth>>
    /\ UNCHANGED <<callFrame, wireFrame>>

\* new HttpClient(opts): the checks in their order, then the fields
Construct ==
    /\ pc = "new"
    /\ IF CtorFailure(opts) # ""
         THEN /\ pc' = "invalid"
              /\ thrown' = ConfigError(CtorFailure(opts))
              /\ UNCHANGED <<baseUrls, headers, interceptors, retryGiven,
                             retry, timeoutMs, auth, opts>>
         ELSE /\ pc' = "idle"
              /\ baseUrls' = opts.baseUrls.map
              /\ headers' = DefaultHeaders
              /\ interceptors' = opts.interceptors
              /\ retryGiven' = opts.hasRetry
              /\ retry' = CtorRetry(opts.hasRetry, opts.retry)
              /\ timeoutMs' = CtorTimeout(opts)
              /\ auth' = "NoAuth"
              /\ opts' = NoOpts
              /\ thrown' = thrown
    /\ UNCHANGED <<method, hasSignal, attempt, hookIdx, resStatus, timerArmed,
                   ctrlAborted, ctrlReason, callerAborted, callerReason, delay,
                   metrics, attempts, inFlight, authCalls, beforeCalls, raised,
                   startAborted, abortedAt, options, body, authAtCall,
                   appliedAuth, thrownKeys, call, result, objectVars>>
    /\ UNCHANGED wireFrame

\* the method request() is called with: any, or the endpoint's own when
\* BaseEndpoint.call makes the request
RequestMethods ==
    IF call.fn \in {"BaseEndpoint.call", "shorthand"}
      THEN {call.method} ELSE Methods

Next ==
    \/ \E m \in RequestMethods, sig \in BOOLEAN : Request(m, sig)
    \/ \E tokenOk \in BOOLEAN : AuthDone(tokenOk)
    \/ \E ok \in BOOLEAN : BeforeHookDone(ok)
    \/ DoFetchFirst
    \/ \E status \in Statuses : FetchResolve(status)
    \/ FetchReject
    \/ FetchAborted
    \/ \E readOk \in BOOLEAN : TextDone(readOk)
    \/ DecodeOk
    \/ DecodeFail
    \/ DecodeAborted
    \/ \E ok \in BOOLEAN : AfterHookDone(ok)
    \/ TimerFire
    \/ \E kind \in AbortReasons : CallerAbort(kind)
    \/ SleepDone

Spec == Init /\ [][Next]_vars

\* ------------------------------------------------- the data of one request
\* a client with the sample base URLs and headers of its own, one hook of
\* each kind, a timeout and one retry; the provider, the options and the
\* body of the request to come are drawn from the sample data
InitData ==
    /\ retryGiven = TRUE
    /\ retry = [maxRetries |-> 1, baseDelayMs |-> 100,
                hasJitter |-> TRUE, jitterPct |-> 0,
                hasRetryMethods |-> TRUE,
                retryMethods |-> {"GET", "POST", "DELETE"}]
    /\ timeoutMs = 5000
    /\ interceptors = [before |-> 1, after |-> 1]
    /\ auth \in AuthProviders
    /\ baseUrls = SampleBaseUrls
    /\ headers = SampleClientHeaders
    /\ opts = NoOpts
    /\ \E key \in BaseUrlKeyChoices, q \in QueryChoices, h \in CallHeaderChoices :
         options = [baseUrlKey |-> key, query |-> q, headers |-> h]
    /\ body \in BodyChoices
    /\ pc = "idle"
    /\ RequestInit
    /\ call = NoCall
    /\ result = NoResult
    /\ NoObjects

SpecData == InitData /\ [][Next]_vars

\* ------------------------------------------------- the life of one client
\* before `new HttpClient(opts)`: no field is set yet
InitClient ==
    /\ opts \in ClientOptions
    /\ pc = "new"
    /\ retryGiven = FALSE
    /\ retry = DefaultRetry
    /\ timeoutMs = 0
    /\ interceptors = [before |-> 0, after |-> 0]
    /\ auth = "none"
    /\ baseUrls = NoHeaders
    /\ headers = NoHeaders
    /\ options = NoOptions
    /\ body = NoBody
    /\ RequestInit
    /\ call = NoCall
    /\ result = NoResult
    /\ NoObjects

NextClient ==
    \/ Construct
    \/ \E a \in AuthChoices : SetAuth(a)
    \/ Next

SpecClient == InitClient /\ [][NextClient]_vars

\* ------------------------------------------- functions and auth providers
\* the fields of the client and the locals and history of request()
pipelineVars ==
    <<retry, timeoutMs, interceptors, auth, method, hasSignal, pc, attempt,
      hookIdx, resStatus, timerArmed, ctrlAborted, ctrlReason, callerAborted,
      callerReason, delay, thrown, metrics, attempts, inFlight, authCalls,
      beforeCalls, raised, startAborted, abortedAt, retryGiven,
      baseUrls, headers, opts, options, body, url, init, sent, hookUrls,
      authAtCall, appliedAuth, thrownKeys>>

\* toQueryString(q) returns
ToQueryStringCall ==
    /\ call.fn = "toQueryString"
    /\ result.state = "none"
    /\ result' = [state |-> "returned", value |-> ToQueryString(call.q)]
    /\ UNCHANGED <<call, pipelineVars, objectVars>>

\* new ApiKeyAuth(opts) returns or throws
NewApiKeyAuth ==
    /\ call.fn = "ApiKeyAuth"
    /\ result.state = "none"
    /\ result' = IF ApiKeyAuthCtorFailure(call.opts) # ""
                   THEN [state |-> "thrown",
                         value |-> ApiKeyAuthCtorFailure(call.opts)]
                   ELSE [state |-> "constructed",
                         value |-> ApiKeyAuthProvider(call.opts)]
    /\ UNCHANGED <<call, pipelineVars, objectVars>>

\* apply({url, init}) of the constructed ApiKeyAuth returns
ApiKeyAuthApply ==
    /\ call.fn = "ApiKeyAuth"
    /\ result.state = "constructed"
    /\ result' = [state |-> "applied",
                  value |-> [provider |-> result.value,
                             headers |-> AuthHeaders(result.value, call.headers),
                             urlOverride |-> AuthUrlOverride(result.value, call.url)]]
    /\ UNCHANGED <<call, pipelineVars, objectVars>>

\* the next apply({init}) of one BearerTokenAuth settles; every apply gets
\* the init of its own request, whose headers are call.headers
BearerTokenAuthApply ==
    /\ call.fn = "BearerTokenAuth"
    /\ LET first == result.state = "none"
           outcomes == IF first THEN <<>> ELSE result.value.outcomes
           calls == IF first THEN 0 ELSE result.value.getTokenCalls
           token == GetToken(call.tokens, calls + 1)
       IN  /\ Len(outcomes) < Len(call.tokens)
           /\ result' =
                [state |-> "applied",
                 value |->
                   [getTokenCalls |-> calls + 1,
                    outcomes |->
                      Append(outcomes,
                             IF ~Truthy(token)
                               THEN [thrown |-> TRUE, headers |-> call.headers]
                               ELSE [thrown |-> FALSE,
                                     headers |-> BearerHeaders(call.headers, token)])]]
    /\ UNCHANGED <<call, pipelineVars, objectVars>>

\* an idle client with the sample base URLs, one hook of each kind, a
\* timeout and one retry
SampleClient ==
    /\ retryGiven = TRUE
    /\ retry = [maxRetries |-> 1, baseDelayMs |-> 100,
                hasJitter |-> TRUE, jitterPct |-> 0,
                hasRetryMethods |-> TRUE,
                retryMethods |-> {"GET", "POST", "DELETE"}]
    /\ timeoutMs = 5000
    /\ interceptors = [before |-> 1, after |-> 1]
    /\ auth = "NoAuth"
    /\ baseUrls = SampleBaseUrls
    /\ headers = DefaultHeaders
    /\ opts = NoOpts

\* one call of toQueryString, or one ApiKeyAuth constructed and applied, or
\* one BearerTokenAuth applied MaxApplies times
InitPure ==
    /\ SampleClient
    /\ options = NoOptions
    /\ body = NoBody
    /\ pc = "idle"
    /\ RequestInit
    /\ \/ \E q \in QueryInputs : call = [fn |-> "toQueryString", q |-> q]
       \/ \E o \in ApiKeyAuthOptions, u \in ApplyUrls, h \in ApplyHeaders :
            call = [fn |-> "ApiKeyAuth", opts |-> o, url |-> u, headers |-> h]
       \/ \E ts \in [1..MaxApplies -> TokenValues], h \in ApplyHeaders :
            call = [fn |-> "BearerTokenAuth", tokens |-> ts, headers |-> h]
    /\ result = NoResult
    /\ NoObjects

NextPure ==
    \/ ToQueryStringCall
    \/ NewApiKeyAuth
    \/ ApiKeyAuthApply
    \/ BearerTokenAuthApply

SpecPure == InitPure /\ [][NextPure]_vars

\* ------------------------------------------------------- BaseEndpoint.call
\* {...a, ...b} of two query records: a key of b takes the place it has in
\* a, or is added after a's keys
SpreadEntry(es, e) ==
    IF \E i \in 1..Len(es) : es[i].k = e.k
      THEN [i \in 1..Len(es) |-> IF es[i].k = e.k THEN e ELSE es[i]]
      ELSE Append(es, e)
RECURSIVE Spread(_, _)
Spread(a, b) ==
    IF b = <<>> THEN a ELSE Spread(SpreadEntry(a, Head(b)), Tail(b))

\* the query call() hands to client.request: args.query spread over a
\* record options.query, or options.query when the merge has no key
EndpointQuery(optQ, argQ) ==
    IF optQ.kind = "none" /\ argQ.kind = "none" THEN optQ
    ELSE LET merged ==
               Spread(IF optQ.kind = "record" THEN optQ.entries ELSE <<>>,
                      IF argQ.kind = "record" THEN argQ.entries ELSE <<>>)
         IN  IF Len(merged) > 0 THEN [kind |-> "record", entries |-> merged]
             ELSE optQ

\* const body = shouldHaveBody ? args : undefined
EndpointBody(m) == IF m \in {"GET", "HEAD"} THEN NoBody ELSE ArgsBody

\* `if (this.requestSchema) { ...; if (!parsed.success) throw parsed.error }`
RequestRefusedNever == FALSE
RequestRefused == call.hasRequestSchema /\ ~call.argsValid

\* call(args, options) up to `await this.client.request(...)`
EndpointCall ==
    /\ call.fn = "BaseEndpoint.call"
    /\ pc = "endpoint"
    /\ IF RequestRefused
         THEN /\ pc' = "refused"
              /\ result' = [state |-> "thrown", value |-> ZodError]
              /\ UNCHANGED <<body, options>>
         ELSE /\ pc' = "idle"
              /\ body' = EndpointBody(call.method)
              /\ options' = [options EXCEPT
                               !.query = EndpointQuery(options.query, call.argsQuery)]
              /\ result' = result
    /\ UNCHANGED <<retry, timeoutMs, interceptors, auth, method, hasSignal,
                   attempt, hookIdx, resStatus, timerArmed, ctrlAborted,
                   ctrlReason, callerAborted, callerReason, delay, thrown,
                   metrics, attempts, inFlight, authCalls, beforeCalls, raised,
                   startAborted, abortedAt, retryGiven, baseUrls, headers,
                   opts, url, init, sent, hookUrls, authAtCall, appliedAuth,
                   thrownKeys, call, objectVars>>

\* what responseSchema.safeParse(data) may come to: a failure, a success
\* whose res.data is the decoded data as it was, or a success whose
\* res.data differs from it (a z.object drops the keys it does not name, a
\* schema may transform or fill defaults)
ParseOutcomes == {"fail", "same", "changed"}

\* the decoded body of the response, and a schema output that differs
DecodedData == "data"
ParsedData == "parsed"

\* parseOrThrow(schema, data): `if (!res.success) throw new ApiError(...,
\* { zodError: res.error }); return res.data`
ParseOrThrowUnwrapped(outcome) ==
    CASE outcome = "fail" -> [state |-> "thrown", value |-> ZodError]
      [] outcome = "same" -> [state |-> "returned", value |-> DecodedData]
      [] OTHER -> [state |-> "returned", value |-> ParsedData]
ParseOrThrow(outcome) ==
    CASE outcome = "fail" ->
           [state |-> "thrown", value |-> ResponseValidationError]
      [] outcome = "same" -> [state |-> "returned", value |-> DecodedData]
      [] OTHER -> [state |-> "returned", value |-> ParsedData]

\* client.request has settled: call() rejects with its rejection, or runs
\* parseOrThrow(responseSchema, data) and returns or rejects with it
EndpointReturn(outcome) ==
    /\ call.fn = "BaseEndpoint.call"
    /\ result.state = "none"
    /\ pc \in {"done", "failed"}
    /\ pc = "failed" => outcome = "same"
    /\ result' = IF pc = "failed" THEN [state |-> "thrown", value |-> thrown]
                 ELSE ParseOrThrow(outcome)
    /\ UNCHANGED <<call, pipelineVars, objectVars>>

\* the methods of the sample endpoints
EndpointMethods == {"GET", "HEAD", "POST"}

\* an endpoint over the sample client, before call(args, options): with or
\* without a request schema, args that pass it or not, with or without a
\* query of their own
InitEndpoint ==
    /\ SampleClient
    /\ \E q \in QueryChoices : options = [NoOptions EXCEPT !.query = q]
    /\ body = NoBody
    /\ pc = "endpoint"
    /\ RequestInit
    /\ \E m \in EndpointMethods, s \in BOOLEAN, v \in BOOLEAN,
          q \in ArgsQueryChoices :
         call = [fn |-> "BaseEndpoint.call", method |-> m,
                 hasRequestSchema |-> s, argsValid |-> v, argsQuery |-> q]
    /\ result = NoResult
    /\ NoObjects

NextEndpoint ==
    \/ EndpointCall
    \/ \E outcome \in ParseOutcomes : EndpointReturn(outcome)
    \/ Next

SpecEndpoint == InitEndpoint /\ [][NextEndpoint]_vars

\* ------------------------------------------------ InMemoryMetricsCollector
RECURSIVE Pow2(_)
Pow2(k) == IF k = 0 THEN 1 ELSE 2 * Pow2(k - 1)

\* the number of bits of a natural number
RECURSIVE BitLen(_)
BitLen(n) == IF n = 0 THEN 0 ELSE 1 + BitLen(n \div 2)

\* num / den rounded to the nearest integer, a tie to the even one
RoundHalfEven(num, den) ==
    LET q == num \div den
        r == num % den
    IN  IF 2 * r > den \/ (2 * r = den /\ q % 2 = 1) THEN q + 1 ELSE q

\* the number nearest to the natural number s, a tie to the even significand
FloatOfNat(s) ==
    IF s < Pow2(MantissaBits)
      THEN s
      ELSE LET ulp == Pow2(BitLen(s) - MantissaBits)
           IN  RoundHalfEven(s, ulp) * ulp

\* a + b of two numbers holding naturals
FloatAdd(a, b) == FloatOfNat(a + b)

\* s / n of a number holding a natural and a count n >= 1: the number
\* m * 2^e nearest to the quotient, as [m, e] with m below 2^MantissaBits
FloatDiv(s, n) ==
    IF s = 0 THEN [m |-> 0, e |-> 0]
    ELSE
      LET \* the exponent that puts s / (n * 2^e) in [2^(bits-1), 2^bits)
          Fits(e) ==
              IF e >= 0
                THEN /\ s >= Pow2(MantissaBits - 1) * n * Pow2(e)
                     /\ s < Pow2(MantissaBits) * n * Pow2(e)
                ELSE /\ s * Pow2(-e) >= Pow2(MantissaBits - 1) * n
                     /\ s * Pow2(-e) < Pow2(MantissaBits) * n
          low == BitLen(s) - BitLen(n) - MantissaBits
          e == CHOOSE x \in {low, low + 1} : Fits(x)
          m == IF e >= 0 THEN RoundHalfEven(s, n * Pow2(e))
                         ELSE RoundHalfEven(s * Pow2(-e), n)
      IN  IF m = Pow2(MantissaBits)
            THEN [m |-> Pow2(MantissaBits - 1), e |-> e + 1]
            ELSE [m |-> m, e |-> e]

\* f <= d and d <= f for a number f = [m, e] and a natural d
FloatLeNat(f, d) ==
    IF f.e >= 0 THEN f.m * Pow2(f.e) <= d
    ELSE (f.m + Pow2(-f.e) - 1) \div Pow2(-f.e) <= d
NatLeFloat(d, f) ==
    IF f.e >= 0 THEN d <= f.m * Pow2(f.e)
    ELSE d <= f.m \div Pow2(-f.e)

\* a duration whose threefold sum is a tie between two numbers
BigDuration == Pow2(MantissaBits) - 6

\* the RequestMetrics records handed to collect(): success and durationMs
MetricsRecords == [success : BOOLEAN, durationMs : {10, 30, BigDuration}]

\* collect(metrics): push, then one shift when the list is over maxEntries
CollectEvictsNewest(ms, m, max) ==
    IF Len(ms) + 1 > max THEN ms ELSE Append(ms, m)
Collect(ms, m, max) ==
    LET pushed == Append(ms, m)
    IN  IF Len(pushed) > max THEN Tail(pushed) ELSE pushed

\* getMetrics(): `[...this.metrics]`, a new array with the same records
GetMetricsSameArray(ms) == [given |-> TRUE, aliased |-> TRUE, items |-> ms]
GetMetrics(ms) == [given |-> TRUE, aliased |-> FALSE, items |-> ms]

\* nothing returned by getMetrics is held by the caller
NoList == [given |-> FALSE, aliased |-> FALSE, items |-> <<>>]

\* durations.reduce((a, b) => a + b, 0): from the left, each sum rounded
RECURSIVE SumDurations(_)
SumDurations(ms) ==
    IF ms = <<>> THEN 0
    ELSE FloatAdd(SumDurations(SubSeq(ms, 1, Len(ms) - 1)),
                  ms[Len(ms)].durationMs)

\* Math.min(...durations), Math.max(...durations) of a list that is not empty
MinDuration(ms) ==
    CHOOSE d \in {ms[i].durationMs : i \in 1..Len(ms)} :
       \A i \in 1..Len(ms) : d <= ms[i].durationMs
MaxDuration(ms) ==
    CHOOSE d \in {ms[i].durationMs : i \in 1..Len(ms)} :
       \A i \in 1..Len(ms) : d >= ms[i].durationMs

\* the number 0
Zero == [m |-> 0, e |-> 0]

\* getSummary(); avgDurationMs is the number sum / length
GetSummaryFailedIsTotal(ms) ==
    IF Len(ms) = 0
      THEN [given |-> TRUE, total |-> 0, successful |-> 0, failed |-> 0,
            avgDurationMs |-> Zero, minDurationMs |-> 0, maxDurationMs |-> 0]
      ELSE [given |-> TRUE,
            total |-> Len(ms),
            successful |-> Len(SelectSeq(ms, LAMBDA m : m.success)),
            failed |-> Len(ms),
            avgDurationMs |-> FloatDiv(SumDurations(ms), Len(ms)),
            minDurationMs |-> MinDuration(ms),
            maxDurationMs |-> MaxDuration(ms)]
GetSummary(ms) ==
    IF Len(ms) = 0
      THEN [given |-> TRUE, total |-> 0, successful |-> 0, failed |-> 0,
            avgDurationMs |-> Zero, minDurationMs |-> 0, maxDurationMs |-> 0]
      ELSE [given |-> TRUE,
            total |-> Len(ms),
            successful |-> Len(SelectSeq(ms, LAMBDA m : m.success)),
            failed |-> Len(ms) - Len(SelectSeq(ms, LAMBDA m : m.success)),
            avgDurationMs |-> FloatDiv(SumDurations(ms), Len(ms)),
            minDurationMs |-> MinDuration(ms),
            maxDurationMs |-> MaxDuration(ms)]

\* no summary is held by the caller
NoSummary ==
    [given |-> FALSE, total |-> 0, successful |-> 0, failed |-> 0,
     avgDurationMs |-> Zero, minDurationMs |-> 0, maxDurationMs |-> 0]

\* collector.collect(m); the caller lets go of what earlier calls returned
CollectorCollect(m) ==
    /\ collector.collects < MaxCollects
    /\ collector' = [collector EXCEPT
                       !.metrics = Collect(@, m, collector.maxEntries),
                       !.collected = Append(@, m),
                       !.collects = @ + 1,
                       !.returned = NoList,
                       !.summary = NoSummary]
    /\ UNCHANGED <<call, result, pipelineVars, heap, reqs>>

\* collector.getMetrics()
CollectorGetMetrics ==
    /\ ~collector.returned.given
    /\ collector' = [collector EXCEPT !.returned = GetMetrics(collector.metrics)]
    /\ UNCHANGED <<call, result, pipelineVars, heap, reqs>>

\* the caller removes the last element of the list getMetrics returned;
\* the array the collector holds changes only if it is that same array
CollectorMutateReturned ==
    /\ collector.returned.given
    /\ collector.returned.items # <<>>
    /\ LET popped == SubSeq(collector.returned.items, 1,
                            Len(collector.returned.items) - 1)
       IN  collector' = [collector EXCEPT
                           !.returned.items = popped,
                           !.metrics = IF collector.returned.aliased
                                         THEN popped ELSE @]
    /\ UNCHANGED <<call, result, pipelineVars, heap, reqs>>

\* collector.getSummary()
CollectorGetSummary ==
    /\ ~collector.summary.given
    /\ collector' = [collector EXCEPT !.summary = GetSummary(collector.metrics)]
    /\ UNCHANGED <<call, result, pipelineVars, heap, reqs>>

\* collector.clear(): `this.metrics = []`, a new array
CollectorClear ==
    /\ collector.collected # <<>>
    /\ collector' = [collector EXCEPT
                       !.metrics = <<>>,
                       !.collected = <<>>,
                       !.returned = NoList,
                       !.summary = NoSummary]
    /\ UNCHANGED <<call, result, pipelineVars, heap, reqs>>

\* new InMemoryMetricsCollector(maxEntries) or new InMemoryMetricsCollector();
\* collected lists what was collected since construction or the last
\* clear, collects counts the collect calls
InitMetrics ==
    /\ SampleClient
    /\ options = NoOptions
    /\ body = NoBody
    /\ pc = "idle"
    /\ RequestInit
    /\ call = NoCall
    /\ result = NoResult
    /\ \E n \in (0..MaxEntriesBound) \cup {DefaultMaxEntries} :
         collector = [maxEntries |-> n, metrics |-> <<>>, collected |-> <<>>,
                      collects |-> 0, returned |-> NoList,
                      summary |-> NoSummary]
    /\ heap = <<>>
    /\ reqs = <<>>

NextMetrics ==
    \/ \E m \in MetricsRecords : CollectorCollect(m)
    \/ CollectorGetMetrics
    \/ CollectorMutateReturned
    \/ CollectorGetSummary
    \/ CollectorClear

SpecMetrics == InitMetrics /\ [][NextMetrics]_vars

\* ------------------------------------------- get, post, put, patch, delete
ShorthandNames == {"get", "post", "put", "patch", "delete"}

\* the shorthands declared with a body parameter
BodyShorthands == {"post", "put", "patch"}

\* the arguments a shorthand hands to this.request: the method and the body
ShorthandArgsPutPosts(name, bodyArg) ==
    [method |-> CASE name = "get" -> "GET"
                  [] name = "post" -> "POST"
                  [] name = "put" -> "POST"
                  [] name = "patch" -> "PATCH"
                  [] name = "delete" -> "DELETE",
     body |-> IF name \in {"get", "delete"} THEN NoBody ELSE bodyArg]
ShorthandArgs(name, bodyArg) ==
    [method |-> CASE name = "get" -> "GET"
                  [] name = "post" -> "POST"
                  [] name = "put" -> "PUT"
                  [] name = "patch" -> "PATCH"
                  [] name = "delete" -> "DELETE",
     body |-> IF name \in {"get", "delete"} THEN NoBody ELSE bodyArg]

\* client.get(path, options) and the like: `return this.request(...)`; the
\* options are handed on as they are
ShorthandCall ==
    /\ call.fn = "shorthand"
    /\ pc = "shorthand"
    /\ LET args == ShorthandArgs(call.name, call.bodyArg)
       IN  /\ call' = [call EXCEPT !.method = args.method]
           /\ body' = args.body
    /\ pc' = "idle"
    /\ UNCHANGED <<retry, timeoutMs, interceptors, auth, method, hasSignal,
                   attempt, hookIdx, resStatus, timerArmed, ctrlAborted,
                   ctrlReason, callerAborted, callerReason, delay, thrown,
                   metrics, attempts, inFlight, authCalls, beforeCalls, raised,
                   startAborted, abortedAt, retryGiven, baseUrls, headers,
                   opts, options, url, init, sent, hookUrls, authAtCall,
                   appliedAuth, thrownKeys, result, objectVars>>

\* one shorthand called on the sample client, with a body argument or
\* without one where it takes one, and with or without headers of the call
InitShorthand ==
    /\ SampleClient
    /\ \E h \in CallHeaderChoices : options = [NoOptions EXCEPT !.headers = h]
    /\ body = NoBody
    /\ pc = "shorthand"
    /\ RequestInit
    /\ \E n \in ShorthandNames, b \in BodyChoices :
         /\ n \notin BodyShorthands => b = NoBody
         /\ call = [fn |-> "shorthand", name |-> n, bodyArg |-> b,
                    options |-> options, method |-> ""]
    /\ result = NoResult
    /\ NoObjects

NextShorthand ==
    \/ ShorthandCall
    \/ Next

SpecShorthand == InitShorthand /\ [][NextShorthand]_vars

\* ------------------------------------- requests in progress at the same time
\* heap lists the header objects by reference: this.headers of the client,
\* the headers object of the options the caller hands to every call, and
\* the objects request() and the auth providers create
ClientRef == 1
OptionsRef == 2

\* the path argument of the r-th call
ReqPath(r) == "/r" \o ToString(r)

\* `${base}${path}${toQueryString(options?.query)}` of the r-th call (default
\* base URL, no query)
ReqUrl(r) == "https://a.test" \o ReqPath(r)

\* request() has not been called for this slot
NoReq == [pc |-> "new", url |-> "", headers |-> 0, urlOverride |-> "",
          hooksRun |-> 0, sent |-> [url |-> "", headers |-> NoHeaders]]

\* `const headers = {...this.headers, ...(options?.headers ?? {})}`: a new
\* object; gives the heap and the reference of the object
HeadersObjectShared(hp) ==
    [heap |-> [hp EXCEPT ![ClientRef] = HeaderMerge(hp[ClientRef], hp[OptionsRef])],
     ref |-> ClientRef]
HeadersObject(hp) ==
    [heap |-> Append(hp, HeaderMerge(hp[ClientRef], hp[OptionsRef])),
     ref |-> Len(hp) + 1]

\* request(): from the call to the await of auth.apply
ReqStart(r) ==
    /\ reqs[r].pc = "new"
    /\ LET o == HeadersObject(heap)
       IN  /\ heap' = o.heap
           /\ reqs' = [reqs EXCEPT ![r] = [NoReq EXCEPT !.pc = "auth",
                                                        !.url = ReqUrl(r),
                                                        !.headers = o.ref]]
    /\ UNCHANGED <<call, result, pipelineVars, collector>>

\* u.searchParams.set(query, value); u.toString() of a URL without a query
ReqUrlOverride(u) == u \o "?" \o ApiKeyQuery \o "=" \o ApiKeyValue

\* auth.apply({url, init, options}) and `if (init.__urlOverride) url = ...`:
\* the header providers put a new object in init.headers, the query
\* provider sets init.__urlOverride
ReqAuth(r) ==
    /\ reqs[r].pc = "auth"
    /\ IF auth \in {"ApiKeyAuth.header", "BearerTokenAuth"}
         THEN /\ heap' = Append(heap, AuthHeaders(auth, heap[reqs[r].headers]))
              /\ reqs' = [reqs EXCEPT ![r].pc = "hooks",
                                      ![r].headers = Len(heap) + 1]
       ELSE IF auth = "ApiKeyAuth.query"
         THEN /\ heap' = heap
              /\ reqs' = [reqs EXCEPT
                            ![r].pc = "hooks",
                            ![r].urlOverride = ReqUrlOverride(reqs[r].url),
                            ![r].url = ReqUrlOverride(reqs[r].url)]
       ELSE /\ heap' = heap
            /\ reqs' = [reqs EXCEPT ![r].pc = "hooks"]
    /\ UNCHANGED <<call, result, pipelineVars, collector>>

\* the header the k-th pre-send hook writes for the r-th call
HookStamp(r, k) == ReqPath(r) \o "#" \o ToString(k)

\* one pre-send hook of runBeforeHooks: it is handed {url, init} and writes
\* a header of its own into the object init.headers refers to
ReqHook(r) ==
    /\ reqs[r].pc = "hooks"
    /\ reqs[r].hooksRun < interceptors.before
    /\ heap' = [heap EXCEPT ![reqs[r].headers] =
                   HeaderMerge(@, [k \in {"X-Hook"} |->
                                     HookStamp(r, reqs[r].hooksRun + 1)])]
    /\ reqs' = [reqs EXCEPT ![r].hooksRun = @ + 1]
    /\ UNCHANGED <<call, result, pipelineVars, collector>>

\* doFetch: `new Request(url, init)` copies the URL and the headers
ReqSend(r) ==
    /\ reqs[r].pc = "hooks"
    /\ reqs[r].hooksRun = interceptors.before
    /\ reqs' = [reqs EXCEPT ![r].pc = "sent",
                            ![r].sent = [url |-> reqs[r].url,
                                         headers |-> heap[reqs[r].headers]]]
    /\ UNCHANGED <<call, result, pipelineVars, collector, heap>>

\* one client with headers of its own, any auth provider and no or MaxHooks
\* pre-send hooks; MaxRequests calls that are handed one options object
InitConcurrent ==
    /\ retryGiven = TRUE
    /\ retry = [maxRetries |-> 1, baseDelayMs |-> 100,
                hasJitter |-> TRUE, jitterPct |-> 0,
                hasRetryMethods |-> TRUE,
                retryMethods |-> {"GET", "POST", "DELETE"}]
    /\ timeoutMs = 5000
    /\ interceptors \in HookChoices
    /\ auth \in AuthProviders
    /\ baseUrls = SampleBaseUrls
    /\ headers = SampleClientHeaders
    /\ opts = NoOpts
    /\ \E h \in CallHeaderChoices : options = [NoOptions EXCEPT !.headers = h]
    /\ body = NoBody
    /\ pc = "idle"
    /\ RequestInit
    /\ call = NoCall
    /\ result = NoResult
    /\ collector = NoCollector
    /\ heap = <<headers, options.headers>>
    /\ reqs = [r \in 1..MaxRequests |-> NoReq]

NextConcurrent ==
    \E r \in 1..MaxRequests :
       \/ ReqStart(r)
       \/ ReqAuth(r)
       \/ ReqHook(r)
       \/ ReqSend(r)

SpecConcurrent == InitConcurrent /\ [][NextConcurrent]_vars

\* ------------------------------------------------------------- termination
\* the steps that complete something request() awaits: auth.apply, a hook,
\* the network call, the reading and decoding of the body, the backoff sleep
Completes ==
    \/ \E tokenOk \in BOOLEAN : AuthDone(tokenOk)
    \/ \E ok \in BOOLEAN : BeforeHookDone(ok)
    \/ DoFetchFirst
    \/ \E status \in Statuses : FetchResolve(status)
    \/ FetchReject
    \/ FetchAborted
    \/ \E readOk \in BOOLEAN : TextDone(readOk)
    \/ DecodeOk
    \/ DecodeFail
    \/ DecodeAborted
    \/ \E ok \in BOOLEAN : AfterHookDone(ok)
    \/ SleepDone

\* a client with a retry budget of 0..MaxRetriesBound, with and without a
\* timeout, one hook of each kind, auth from AuthChoices
InitLive ==
    /\ retryGiven = TRUE
    /\ \E n \in 0..MaxRetriesBound :
         retry = [maxRetries |-> n, baseDelayMs |-> 100,
                  hasJitter |-> TRUE, jitterPct |-> 0,
                  hasRetryMethods |-> TRUE,
                  retryMethods |-> {"GET", "POST", "DELETE"}]
    /\ timeoutMs \in TimeoutChoices
    /\ interceptors = [before |-> 1, after |-> 1]
    /\ auth \in AuthChoices
    /\ baseUrls = SampleBaseUrls
    /\ headers = DefaultHeaders
    /\ opts = NoOpts
    /\ options = NoOptions
    /\ body = NoBody
    /\ pc = "idle"
    /\ RequestInit
    /\ call = NoCall
    /\ result = NoResult
    /\ NoObjects

\* whatever request() awaits completes: weak fairness of the completing
\* steps; the caller's abort and the timer may or may not happen
SpecLive == InitLive /\ [][Next]_vars /\ WF_vars(Completes)

\* ------------------------------------------- a custom eligibility predicate
\* retry.shouldRetry of RetryStrategy: not given, or a predicate that
\* answers false to every context, or true to every context.  The
\* constructor stores the option as it is; nothing in HttpClient reads the
\* field
ShouldRetryChoices == {"none", "never", "always"}

\* a client whose retry option carries shouldRetry
InitPolicy ==
    /\ retryGiven = TRUE
    /\ \E n \in 0..MaxRetriesBound, p \in ShouldRetryChoices :
         retry = [maxRetries |-> n, baseDelayMs |-> 100,
                  hasJitter |-> TRUE, jitterPct |-> 0,
                  hasRetryMethods |-> TRUE,
                  retryMethods |-> {"GET", "POST", "DELETE"},
                  shouldRetry |-> p]
    /\ timeoutMs = 5000
    /\ interceptors = [before |-> 1, after |-> 1]
    /\ auth = "NoAuth"
    /\ baseUrls = SampleBaseUrls
    /\ headers = DefaultHeaders
    /\ opts = NoOpts
    /\ options = NoOptions
    /\ body = NoBody
    /\ pc = "idle"
    /\ RequestInit
    /\ call = NoCall
    /\ result = NoResult
    /\ NoObjects

SpecPolicy == InitPolicy /\ [][Next]_vars

\* ------------------------------------------------------------------- claims
\* the request has settled
Settled == pc \in {"done", "failed"}

\* C1: a logical request makes at most maxRetries + 1 network attempts, and
\* a new attempt starts only after the previous one has finished: never two
\* attempts of the request in flight at once.
C1_BoundedSequentialAttempts ==
    /\ attempts <= retry.maxRetries + 1
    /\ inFlight \in {0, 1}
    /\ (pc \in {"fetch", "text", "decode", "after"}) <=> (inFlight = 1)

C1_Witness ==
    /\ pc = "failed"
    /\ retry.maxRetries >= 2
    /\ attempts = retry.maxRetries + 1

\* C2: an attempt that received a status in [400,500) is the last attempt,
\* for every method and maxRetries, and request() fails with an ApiError
\* carrying that status.
C2_ClientErrorNeverRetried ==
    (resStatus >= 400 /\ resStatus < 500 /\ pc # "text") =>
        /\ pc = "failed"
        /\ thrown.cls = "ApiError"
        /\ thrown.status = resStatus

\* C3: an attempt failing with a status >= 500 or with a network failure,
\* for a method in retryMethods and with fewer than maxRetries retries
\* made, is followed by the backoff sleep and not by the failure of the
\* request; and the sleep ends only by starting the next attempt.
C3_EligibleFailureRetried ==
    /\ [][ ( /\ inFlight = 1
             /\ inFlight' = 0
             /\ pc' # "done"
             /\ \/ raised'.cls = "TypeError"
                \/ (raised'.cls = "ApiError" /\ raised'.status >= 500)
             /\ retry.hasRetryMethods
             /\ method \in retry.retryMethods
             /\ attempts - 1 < retry.maxRetries )
           => pc' = "sleep" ]_vars
    /\ [][ (pc = "sleep" /\ pc' # "sleep")
           => (pc' = "fetch" /\ attempts' = attempts + 1 /\ inFlight' = 1) ]_vars

C3_Witness ==
    /\ pc = "fetch"
    /\ attempts = 2
    /\ raised.cls = "ApiError"
    /\ raised.status >= 500

\* C4: an attempt that failed with the timer's TimeoutError is never
\* followed by another attempt: the request fails with that very failure.
C4_TimeoutNeverRetried ==
    (raised.name = "TimeoutError") => (pc = "failed" /\ thrown = raised)

C4_Witness ==
    /\ pc = "failed"
    /\ raised.name = "TimeoutError"
    /\ retry.hasRetryMethods
    /\ method \in retry.retryMethods
    /\ attempts <= retry.maxRetries

\* C5: once the caller's signal is aborted while an attempt's network call
\* is in flight, that attempt fails and no further attempt is made,
\* whatever the abort reason.
C5_CallerAbortNeverRetried ==
    (abortedAt # 0) => (attempts = abortedAt /\ pc # "done")

\* C6: a request whose method is not in retryMethods makes exactly one
\* attempt whatever the failure and whatever maxRetries; with no retry
\* option only GET and HEAD are retried, so POST, PUT, PATCH and DELETE
\* get exactly one attempt.
C6_IneligibleMethodOneAttempt ==
    /\ ( /\ pc # "idle"
         /\ \/ ~(retry.hasRetryMethods /\ method \in retry.retryMethods)
            \/ (~retryGiven /\ method \in {"POST", "PUT", "PATCH", "DELETE"}) )
       => /\ attempts <= 1
          /\ pc # "sleep"
          /\ (Settled /\ (pc = "done" \/ raised # NoError)) => attempts = 1
    /\ (~retryGiven /\ attempts >= 2) => method \in {"GET", "HEAD"}

C6_Witness ==
    /\ pc = "failed"
    /\ ~retryGiven
    /\ method = "POST"
    /\ raised.cls = "ApiError"
    /\ raised.status = 500
    /\ attempts = 1

\* C7: when request() fails after at least one attempt (retries exhausted
\* or failure not retry-eligible), the error it raises is the error of the
\* last attempt, unchanged.
C7_LastErrorUnchanged ==
    (pc = "failed" /\ attempts >= 1) => (thrown = raised /\ raised # NoError)

C7_Witness ==
    /\ pc = "failed"
    /\ attempts >= 2
    /\ attempts = retry.maxRetries + 1
    /\ raised.cls = "ApiError"
    /\ raised.at = attempts

\* C8: the delay slept before attempt n >= 1 (attempts numbered from 0)
\* lies within baseDelayMs * 2^(n-1) * [1 - jitter, 1 + jitter], jitter
\* being 0.2 when not configured; with jitter 0 it is exactly
\* baseDelayMs * 2^(n-1).  The delay is in units of 1/(100*RandSteps) ms.
C8_BackoffWithinJitterBand ==
    (pc = "sleep") =>
        LET n == attempts
            j == IF retry.hasJitter THEN retry.jitterPct ELSE 20
            nominal == retry.baseDelayMs * 2 ^ (n - 1)
        IN  /\ n >= 1
            /\ delay >= nominal * (100 - j) * RandSteps
            /\ delay <= nominal * (100 + j) * RandSteps
            /\ (j = 0) => (delay = nominal * 100 * RandSteps)

C8_Witness ==
    /\ pc = "sleep"
    /\ attempts = 2
    /\ ~retry.hasJitter
    /\ retry.baseDelayMs = 250
    /\ delay = 250 * 2 * 80 * RandSteps

\* C9: no attempt starts with the internal cancellation handle already
\* cancelled by the timer of an earlier attempt of the same request.
C9_FreshTimeoutWindow == ~startAborted

\* C10 as stated: auth.apply and every pre-send hook run once per attempt,
\* so a request with k attempts invokes auth.apply k times and each
\* pre-send hook k times.
C10_PreSendPerAttempt ==
    (Settled /\ attempts >= 1) =>
        /\ authCalls = attempts
        /\ beforeCalls = attempts * interceptors.before

\* C10 amended: auth.apply and every pre-send hook run exactly once per
\* logical request, before the first attempt; a retry repeats from the
\* network attempt only.
C10_PreSendOncePerRequest ==
    (attempts >= 1) =>
        /\ authCalls = 1
        /\ beforeCalls = interceptors.before

C10_Witness ==
    /\ Settled
    /\ attempts >= 2
    /\ interceptors.before >= 2
    /\ authCalls = 1
    /\ beforeCalls = interceptors.before

\* the last record handed to the metrics collector is a failure record
\* carrying an error description
LastRecordIsFailure ==
    /\ Len(metrics) >= 1
    /\ ~metrics[Len(metrics)].success
    /\ metrics[Len(metrics)].hasError

\* C11 as stated: every failure of the request (in auth.apply, in a pre-send
\* hook, in the network call, in the non-2xx/decode step, in a post-receive
\* hook) has produced a failure record by the time it is retried (the
\* backoff sleep) or propagated (the request has failed).
C11_EveryFailureRecorded ==
    (pc \in {"sleep", "failed"}) => LastRecordIsFailure

\* C11 amended: every failure inside an attempt (network call, non-2xx or
\* decode step, post-receive hook) has produced exactly one failure record,
\* carrying an error description, by the time it is retried or propagated;
\* a failure of auth.apply or of a pre-send hook happens before the first
\* attempt and propagates without any metrics record.
C11_AttemptFailureRecorded ==
    /\ (pc \in {"sleep", "failed"} /\ attempts >= 1) =>
          (LastRecordIsFailure /\ Len(metrics) = attempts)
    /\ (pc = "failed" /\ attempts = 0) =>
          (metrics = <<>> /\ thrown.cls \in {"AuthError", "HookError"})

C11_Witness ==
    /\ pc = "sleep"
    /\ raised.cls = "HookError"
    /\ LastRecordIsFailure
    /\ Len(metrics) = 2

\* a pre-send failure reaches the caller with no record collected
C11_PreSendWitness ==
    /\ pc = "failed"
    /\ thrown.cls = "HookError"
    /\ beforeCalls >= 2
    /\ metrics = <<>>

\* C12: the collector receives exactly one record per completed attempt:
\* the records collected are as many as the attempts that have finished
\* (all of them once the request has settled), only the record of the
\* attempt whose result is returned has success = true, and that attempt
\* has no failure record.
C12_OneRecordPerAttempt ==
    /\ Len(metrics) = attempts - inFlight
    /\ Settled => Len(metrics) = attempts
    /\ \A i \in 1..Len(metrics) :
          metrics[i].success => (i = Len(metrics) /\ pc = "done")
    /\ (pc = "done") => (Len(metrics) >= 1 /\ metrics[Len(metrics)].success)

C12_Witness ==
    /\ pc = "done"
    /\ attempts = 3
    /\ Len(metrics) = 3
    /\ ~metrics[1].success
    /\ ~metrics[2].success
    /\ metrics[3].success

\* C13: a failure raised by the auth provider is the failure of request():
\* no attempt (network call) was made, no pre-send hook ran, withRetry was
\* never entered (no retry counted, no backoff sleep computed), whatever
\* the method and maxRetries.
C13_AuthFailureImmediate ==
    (thrown.cls = "AuthError") =>
        /\ pc = "failed"
        /\ attempts = 0
        /\ beforeCalls = 0
        /\ attempt = 0
        /\ delay = 0
        /\ raised = NoError

C13_Witness ==
    /\ thrown.cls = "AuthError"
    /\ pc = "failed"
    /\ retry.maxRetries >= 2
    /\ retry.hasRetryMethods
    /\ method \in retry.retryMethods
    /\ interceptors.before >= 1

\* C14: whatever the interleaving of setAuth with a request, the request is
\* authenticated by the provider that was this.auth when request() was
\* called: that provider's apply() is the one invoked, and every Request
\* handed to fetch, on the first attempt and on every retry, carries the
\* headers that provider made, also after this.auth has been swapped.
C14_AuthOfTheCall ==
    /\ (authCalls >= 1) => (appliedAuth = authAtCall)
    /\ \A r \in sent : r.headers = AuthHeaders(authAtCall, RequestHeaders)

C14_Witness ==
    /\ pc = "done"
    /\ attempts >= 2
    /\ authAtCall = "BearerTokenAuth"
    /\ auth = "NoAuth"
    /\ \A r \in sent : r.headers["Authorization"] = "Bearer " \o BearerToken

\* the constructor's argument is one the claim says must be refused
C15_Refused(o) ==
    \/ o.baseUrls.kind # "object"
    \/ "default" \notin DOMAIN o.baseUrls.map
    \/ o.baseUrls.map["default"] = <<>>
    \/ (o.hasRetry /\ o.retry.maxRetries < 0)
    \/ (o.hasRetry /\ o.retry.baseDelayMs < 0)
    \/ (o.hasRetry /\ o.retry.hasJitter
          /\ (o.retry.jitterPct < 0 \/ o.retry.jitterPct > 100))
    \/ (o.hasTimeout /\ o.requestTimeoutMs < 0)
    \/ ~o.fetch

\* C15: the constructor throws exactly when the base-URL map is missing or
\* not an object, has no non-empty `default`, retry.maxRetries < 0,
\* retry.baseDelayMs < 0, retry.jitter is outside [0,1],
\* timeout.requestTimeoutMs < 0 or no fetch is available, and succeeds
\* otherwise; after a throw there is no instance: no request is ever
\* issued.
C15_CtorValidation ==
    /\ [][ (pc = "new" /\ pc' # "new") =>
             /\ pc' = (IF C15_Refused(opts) THEN "invalid" ELSE "idle")
             /\ (pc' = "invalid") => (thrown'.cls = "ConfigError") ]_vars
    /\ [][ (pc = "invalid") => (pc' = "invalid") ]_vars
    /\ []( (pc = "invalid") => (authCalls = 0 /\ attempts = 0 /\ sent = {}) )

C15_Witness ==
    /\ pc = "invalid"
    /\ thrown = ConfigError("retry.jitter must be between 0 and 1")
    /\ opts.retry.jitterPct = 101
    /\ opts.retry.maxRetries = 0
    /\ opts.requestTimeoutMs = 0

\* the base URL C16 names for the request: baseUrls[k], baseUrls.default
\* when no key is given, less one trailing slash
C16_Base ==
    LET b == IF options.baseUrlKey = "" THEN baseUrls["default"]
                                        ELSE baseUrls[options.baseUrlKey]
    IN  IF b[Len(b)] = Lit("/") THEN SubSeq(b, 1, Len(b) - 1) ELSE b

\* C16: with options.baseUrlKey = k in the map the url request() builds,
\* and every attempt sends to, is baseUrls[k] + path + query, with
\* baseUrls.default when no key is given and one trailing slash of the
\* base URL stripped.  (A query-based ApiKeyAuth then sets its parameter
\* in that query, which is C20; the part before the query is unchanged.)
C16_UrlFromBaseUrlKey ==
    (options.baseUrlKey \in {""} \cup DOMAIN baseUrls) =>
        /\ (pc = "auth") =>
              (url = C16_Base \o PathArg \o ToQueryString(options.query))
        /\ \A r \in sent :
              /\ UrlBeforeQuery(r.url) = C16_Base \o PathArg
              /\ (appliedAuth # "ApiKeyAuth.query") =>
                    (r.url = C16_Base \o PathArg \o ToQueryString(options.query))

C16_Witness ==
    /\ pc = "done"
    /\ options.baseUrlKey = "v3"
    /\ appliedAuth = "BearerTokenAuth"
    /\ \E r \in sent :
         r.url = <<Lit("https://c.test"), Lit("/"), Lit("/users"),
                   Lit("?"), Param("a", "1")>>

\* C17: request() with a baseUrlKey that is not in the map fails with the
\* error that lists the keys of the map, and nothing else has happened:
\* no auth.apply, no hook, no attempt, no Request handed to fetch, no
\* metrics record.
C17_UnknownKeyFailsFirst ==
    /\ (pc # "idle" /\ options.baseUrlKey \notin {""} \cup DOMAIN baseUrls) =>
          thrown.cls = "UnknownBaseUrlKey"
    /\ (thrown.cls = "UnknownBaseUrlKey") =>
          /\ pc = "failed"
          /\ thrownKeys = DOMAIN baseUrls
          /\ authCalls = 0
          /\ appliedAuth = "none"
          /\ beforeCalls = 0
          /\ hookUrls = {}
          /\ attempts = 0
          /\ sent = {}
          /\ metrics = <<>>

C17_Witness ==
    /\ pc = "failed"
    /\ options.baseUrlKey = "nope"
    /\ thrown = UnknownBaseUrlKeyError
    /\ thrownKeys = {"default", "v2", "v3"}
    /\ auth = "ApiKeyAuth.query"
    /\ method = "GET"

\* C18: for GET and HEAD the init and every outgoing Request carry no body
\* whatever body argument was passed, and no attempt fails because of a
\* body.
C18_NoBodyForGetHead ==
    (pc # "idle" /\ method \in {"GET", "HEAD"}) =>
        /\ (thrown.cls # "UnknownBaseUrlKey") => (init.body = NoBody)
        /\ \A r \in sent : r.body = NoBody
        /\ raised.cls # "RequestTypeError"

\* the header names the provider of the request sets, and the value it gives
C19_AuthNames ==
    CASE appliedAuth = "ApiKeyAuth.header" -> {ApiKeyHeader}
      [] appliedAuth = "BearerTokenAuth" -> {"Authorization"}
      [] OTHER -> {}
C19_AuthValue ==
    IF appliedAuth = "ApiKeyAuth.header" THEN ApiKeyValue
                                         ELSE "Bearer " \o BearerToken

\* C19: every outgoing Request has the header names of the client
\* defaults, of the per-call headers and of the auth provider; a name the
\* provider sets has the provider's value, any other per-call name the
\* per-call value, any other name the client default.
C19_HeaderPrecedence ==
    \A r \in sent :
        /\ DOMAIN r.headers =
              DOMAIN headers \cup DOMAIN options.headers \cup C19_AuthNames
        /\ \A k \in DOMAIN r.headers :
              r.headers[k] =
                IF k \in C19_AuthNames THEN C19_AuthValue
                ELSE IF k \in DOMAIN options.headers THEN options.headers[k]
                ELSE headers[k]

C19_Witness ==
    /\ pc = "done"
    /\ appliedAuth = "ApiKeyAuth.header"
    /\ \E r \in sent :
         /\ r.headers[ApiKeyHeader] = ApiKeyValue
         /\ r.headers["Authorization"] = "call"
         /\ r.headers["X-Call"] = "call"
         /\ r.headers["X-Client"] = "client"

\* the urls request() has let out: to the pre-send hooks and to fetch
C20_UrlsOut == hookUrls \cup {r.url : r \in sent}

\* C20: with ApiKeyAuth({query: name, value: v}) every url handed to a
\* pre-send hook or sent by an attempt is the rewritten url: it has
\* exactly one parameter called name, its value is v, and the other
\* parameters of the request are all there, in their order; this includes
\* a caller's query that has parameters called name already.
C20_ApiKeyInQuery ==
    (appliedAuth = "ApiKeyAuth.query") =>
        \A u \in C20_UrlsOut :
            /\ u = init.urlOverride
            /\ Cardinality({i \in 1..Len(u) : u[i].param /\ u[i].k = ApiKeyQuery}) = 1
            /\ \E i \in 1..Len(u) : u[i] = Param(ApiKeyQuery, ApiKeyValue)
            /\ SelectSeq(SearchParams(u), LAMBDA t : t.k # ApiKeyQuery)
                 = SelectSeq(ToQueryString(options.query),
                             LAMBDA t : t.param /\ t.k # ApiKeyQuery)

C20_Witness ==
    /\ pc = "failed"
    /\ attempts = 2
    /\ appliedAuth = "ApiKeyAuth.query"
    /\ options.query.kind = "params"
    /\ options.baseUrlKey = ""
    /\ hookUrls = {<<Lit("https://a.test"), Lit("/users"), Lit("?"),
                     Param(ApiKeyQuery, ApiKeyValue), Lit("&"), Param("a", "1")>>}
    /\ {r.url : r \in sent} = hookUrls

\* C21: constructing an ApiKeyAuth succeeds exactly when exactly one of the
\* options header and query is given (a name that is not empty); a provider
\* built with header never rewrites the URL and sets the header to the key,
\* one built with query never changes the headers and sets the parameter.
C21_ApiKeyAuthOneOption ==
    call.fn = "ApiKeyAuth" =>
      LET givenHeader == call.opts.header \notin {Undefined, ""}
          givenQuery == call.opts.query \notin {Undefined, ""}
      IN  /\ result.state \in {"constructed", "applied"} =>
                (givenHeader /\ ~givenQuery) \/ (givenQuery /\ ~givenHeader)
          /\ result.state = "thrown" => (givenHeader <=> givenQuery)
          /\ result.state = "applied" =>
               IF givenHeader
                 THEN /\ result.value.urlOverride = <<>>
                      /\ DOMAIN result.value.headers =
                           DOMAIN call.headers \cup {ApiKeyHeader}
                      /\ \A k \in DOMAIN result.value.headers :
                           result.value.headers[k] =
                             IF k = ApiKeyHeader THEN ApiKeyValue
                             ELSE call.headers[k]
                 ELSE /\ result.value.headers = call.headers
                      /\ LET u == result.value.urlOverride
                         IN  /\ UrlBeforeQuery(u) = UrlBeforeQuery(call.url)
                             /\ Cardinality({i \in 1..Len(u) :
                                               u[i].param /\ u[i].k = ApiKeyQuery}) = 1
                             /\ \E i \in 1..Len(u) :
                                  u[i] = Param(ApiKeyQuery, ApiKeyValue)

\* C21 witness: a provider built with an empty header name and a query name
\* has been applied to a request that has headers and a query of its own
C21_Witness ==
    /\ call.fn = "ApiKeyAuth"
    /\ call.opts = [header |-> "", query |-> ApiKeyQuery]
    /\ call.headers = SampleClientHeaders
    /\ QueryStart(call.url) <= Len(call.url)
    /\ result.state = "applied"

\* C22: every apply of a BearerTokenAuth calls the token source once and
\* uses the token that call produced, never one of an earlier apply: an
\* empty or undefined token makes that apply fail with the headers left as
\* they were, any other token is set as `Authorization: Bearer <token>`
\* over the headers of the request.
C22_BearerTokenPerApply ==
    (call.fn = "BearerTokenAuth" /\ result.state = "applied") =>
      /\ result.value.getTokenCalls = Len(result.value.outcomes)
      /\ \A n \in 1..Len(result.value.outcomes) :
           LET t == call.tokens[n]
               o == result.value.outcomes[n]
           IN  IF t \in {Undefined, ""}
                 THEN o.thrown /\ o.headers = call.headers
                 ELSE /\ ~o.thrown
                      /\ DOMAIN o.headers = DOMAIN call.headers \cup {"Authorization"}
                      /\ \A k \in DOMAIN o.headers :
                           o.headers[k] = IF k = "Authorization"
                                            THEN "Bearer " \o t
                                            ELSE call.headers[k]

\* C22 witness: the second apply got an empty token after the first one got
\* a token, and failed
C22_Witness ==
    /\ call.fn = "BearerTokenAuth"
    /\ call.tokens[1] = "t1"
    /\ call.tokens[2] = ""
    /\ call.headers = NoHeaders
    /\ result.state = "applied"
    /\ Len(result.value.outcomes) = 2
    /\ result.value.outcomes[2].thrown

\* the steps of an attempt between the call of fetch and the end of doFetch
InAttempt == pc \in {"fetch", "text", "decode", "after"}

\* C23: within one request auth.apply completes first, then the pre-send
\* hooks run in registration order one at a time (hook i+1 starts only when
\* hook i has completed, the first one when auth.apply has completed), and
\* the first network call is issued only after the last pre-send hook has
\* completed.
C23_AuthThenHooksThenSend ==
    /\ [](pc = "auth" => beforeCalls = 0 /\ attempts = 0 /\ sent = {})
    /\ [](pc = "before" => /\ hookIdx = beforeCalls
                           /\ hookIdx \in 1..interceptors.before
                           /\ authCalls = 1
                           /\ attempts = 0 /\ sent = {})
    /\ [][beforeCalls' # beforeCalls =>
            /\ beforeCalls' = beforeCalls + 1
            /\ hookIdx' = beforeCalls'
            /\ pc' = "before"
            /\ \/ pc = "auth" /\ beforeCalls = 0
               \/ pc = "before" /\ hookIdx = beforeCalls]_vars
    /\ [][attempts = 0 /\ attempts' # attempts =>
            /\ pc = "ready"
            /\ authCalls = 1
            /\ beforeCalls = interceptors.before]_vars

\* C23 witness: the first network call of a client with two pre-send hooks
\* is in flight, both hooks having run
C23_Witness ==
    /\ interceptors.before = 2
    /\ beforeCalls = 2
    /\ attempts = 1
    /\ pc = "fetch"
    /\ sent # {}

\* C24: a pre-send hook that raises aborts the request before anything is
\* sent: the hooks registered after it do not run, no attempt is made, no
\* record is collected, and the hook's error is what the caller gets.
C24_PreSendHookFailureAborts ==
    /\ (thrown = HookError(0)) =>
          /\ pc = "failed"
          /\ beforeCalls = hookIdx
          /\ attempts = 0
          /\ inFlight = 0
          /\ sent = {}
          /\ metrics = <<>>
    /\ (pc = "ready" \/ attempts >= 1) =>
          /\ beforeCalls = interceptors.before
          /\ thrown.cls # "HookError" \/ thrown.at >= 1

\* C24 witness: the first of two pre-send hooks has raised, the request has
\* failed with its error and the second hook was never called
C24_Witness ==
    /\ pc = "failed"
    /\ thrown = HookError(0)
    /\ interceptors.before = 2
    /\ beforeCalls = 1

\* C25: post-receive hooks run only after a 2xx response has been decoded,
\* in registration order one at a time; the attempt succeeds only after the
\* last of them; one that raises makes the attempt fail: the remaining
\* hooks do not run, no success record is collected for the attempt and a
\* failure record is.
C25_PostReceiveHooks ==
    /\ [](pc = "after" => /\ ResOk(resStatus)
                          /\ hookIdx \in 1..interceptors.after
                          /\ inFlight = 1
                          /\ Len(metrics) = attempts - 1)
    /\ [][pc # "after" /\ pc' = "after" =>
            pc = "decode" /\ ResOk(resStatus) /\ hookIdx' = 1]_vars
    /\ [][pc = "after" /\ pc' = "after" /\ hookIdx' # hookIdx =>
            hookIdx' = hookIdx + 1]_vars
    /\ [][pc' = "done" /\ pc # "done" =>
            /\ \/ pc = "after" /\ hookIdx = interceptors.after
               \/ pc = "decode" /\ interceptors.after = 0
            /\ metrics' = Append(metrics, SuccessRecord(resStatus))]_vars
    /\ [][pc = "after" /\ pc' \notin {"after", "done"} =>
            /\ pc' \in {"sleep", "failed"}
            /\ raised' = HookError(attempts)
            /\ metrics' = Append(metrics, FailureRecord(raised'))
            /\ inFlight' = 0
            /\ pc' = "failed" => thrown' = raised']_vars

\* C25 witness: the first of two post-receive hooks has raised after a 2xx
\* response; the attempt has one record, a failure record
C25_Witness ==
    /\ interceptors.after = 2
    /\ raised = HookError(attempts)
    /\ attempts = 1
    /\ hookIdx = 1
    /\ ResOk(resStatus)
    /\ pc \in {"sleep", "failed"}
    /\ Len(metrics) = 1
    /\ ~metrics[1].success

\* C26: the timeout timer is armed for an attempt exactly when a timeout is
\* configured and the caller supplied no signal; with a caller signal no
\* timer is ever armed and the request never fails with the timeout error;
\* the timeout error is an Error named TimeoutError, not an ApiError.
C26_TimerOnlyWithoutCallerSignal ==
    /\ timerArmed => timeoutMs # 0 /\ ~hasSignal /\ InAttempt
    /\ (InAttempt /\ timeoutMs # 0 /\ ~hasSignal) => (timerArmed \/ ctrlAborted)
    /\ hasSignal => ~ctrlAborted
    /\ \A e \in {raised, thrown, ctrlReason, callerReason} :
         e.name = "TimeoutError" =>
            /\ e.cls = "Error"
            /\ e.status = 0
            /\ timeoutMs # 0
            /\ ~hasSignal

\* C26 witness: a request made with a caller signal through a client with a
\* timeout has failed after an attempt that never had a timer
C26_Witness ==
    /\ hasSignal
    /\ timeoutMs # 0
    /\ attempts >= 1
    /\ pc = "failed"

\* C27: an attempt whose response is not 2xx fails with an ApiError whose
\* status is the response status and whose details are the text of the
\* body; when the body cannot be read (as when the signal is aborted) the
\* failure is still an ApiError with that status, its details a diagnostic
\* text: the read failure is never raised in its place.
C27_NonOkIsApiError ==
    /\ [](pc = "text" => ~ResOk(resStatus) /\ resStatus \in Statuses)
    /\ [][pc = "fetch" /\ resStatus' # resStatus =>
            pc' = IF ResOk(resStatus') THEN "decode" ELSE "text"]_vars
    /\ [][pc = "text" /\ pc' # "text" =>
            /\ raised' \in {ApiError(resStatus, d, attempts) :
                              d \in {"body", "readfail"}}
            /\ SignalAborted => raised'.details = "readfail"
            /\ metrics' = Append(metrics, FailureRecord(raised'))
            /\ metrics'[Len(metrics')].status = resStatus
            /\ pc' \in {"sleep", "failed"}
            /\ pc' = "failed" => thrown' = raised']_vars

\* C27 witness: the body of a 404 response could not be read and the
\* request has failed with an ApiError of status 404
C27_Witness ==
    /\ pc = "failed"
    /\ resStatus = 404
    /\ thrown = ApiError(404, "readfail", attempts)

\* the entries of a query argument whose value is not undefined, in order
DefinedEntries(q) == SelectSeq(q.entries, LAMBDA e : e.v # Undefined)

\* C28: toQueryString never emits a key whose value is undefined, keeps the
\* remaining entries in the order of the input, returns either the empty
\* string or a string that begins with "?", and returns the empty string
\* for an absent or empty input.
C28_QueryStringShape ==
    (call.fn = "toQueryString" /\ result.state = "returned") =>
      LET r == result.value
      IN  /\ \A i \in 1..Len(r) : r[i].v # Undefined
          /\ SelectSeq(r, LAMBDA t : t.param) = DefinedEntries(call.q)
          /\ r = <<>> \/ r[1] = Lit("?")
          /\ \A i \in 2..Len(r) : r[i] # Lit("?")
          /\ (call.q.kind = "none" \/ call.q.entries = <<>>) => r = <<>>

\* C28 witness: a record whose first value is undefined and whose second is
\* not has been turned into a query string
C28_Witness ==
    /\ call.fn = "toQueryString"
    /\ call.q = [kind |-> "record",
                 entries |-> <<Param("b", Undefined), Param("a", "1")>>]
    /\ result.state = "returned"
    /\ result.value = <<Lit("?"), Param("a", "1")>>

\* C29 as stated: every non-empty input (a mapping with at least one key,
\* or a container with at least one entry) yields a string starting with "?".
C29_NonEmptyStartsWithMark ==
    (/\ call.fn = "toQueryString"
     /\ result.state = "returned"
     /\ call.q.kind # "none"
     /\ call.q.entries # <<>>) =>
        (result.value # <<>> /\ result.value[1] = Lit("?"))

\* C29: every input with at least one entry whose value is not undefined
\* yields a string starting with "?"; a mapping all of whose values are
\* undefined yields the empty string.
C29_DefinedEntryStartsWithMark ==
    (call.fn = "toQueryString" /\ result.state = "returned") =>
      IF DefinedEntries(call.q) # <<>> /\ call.q.kind # "none"
        THEN result.value # <<>> /\ result.value[1] = Lit("?")
        ELSE result.value = <<>>

\* C29 witness: a mapping with one key, whose value is undefined, has
\* yielded the empty string
C29_Witness ==
    /\ call.fn = "toQueryString"
    /\ call.q = [kind |-> "record", entries |-> <<Param("a", Undefined)>>]
    /\ result.state = "returned"
    /\ result.value = <<>>

\* C30: BaseEndpoint.call with a request schema validates args before
\* anything else: when they fail the schema the call rejects with the
\* ZodError itself, not wrapped in an ApiError, and client.request is never
\* invoked; otherwise client.request is invoked with the endpoint's method.
C30_RequestValidatedFirst ==
    call.fn = "BaseEndpoint.call" =>
      /\ (call.hasRequestSchema /\ ~call.argsValid /\ pc # "endpoint") =>
            /\ pc = "refused"
            /\ result = [state |-> "thrown", value |-> ZodError]
            /\ result.value.cls # "ApiError"
            /\ authAtCall = "none"
            /\ authCalls = 0
            /\ beforeCalls = 0
            /\ attempts = 0
            /\ sent = {}
            /\ metrics = <<>>
      /\ pc = "refused" => call.hasRequestSchema /\ ~call.argsValid
      /\ pc \notin {"endpoint", "refused", "idle"} =>
            authAtCall # "none" /\ method = call.method

\* C30 witness: a POST endpoint with a request schema was called with args
\* that fail it, and the call has been refused
C30_Witness ==
    /\ call.fn = "BaseEndpoint.call"
    /\ call.method = "POST"
    /\ call.hasRequestSchema
    /\ ~call.argsValid
    /\ pc = "refused"
    /\ result.state = "thrown"

\* C31 as stated: a response that fails the response schema makes the call
\* fail with an ApiError carrying the zodError and no further attempt is
\* made; a response that satisfies it makes the call return the decoded data.
C31_ReturnsDecodedData ==
    (call.fn = "BaseEndpoint.call" /\ pc = "done" /\ result.state # "none") =>
       \/ result.state = "thrown" /\ result.value = ResponseValidationError
       \/ result.state = "returned" /\ result.value = DecodedData

\* C31: a response that fails the response schema makes the call fail with
\* an ApiError carrying the zodError, after a request that succeeded, and
\* no further attempt is made once the call has settled, retries remaining
\* or not; a response that satisfies the schema makes the call return the
\* schema's output for the decoded data, which is the decoded data or what
\* the schema made of it.
C31_ResponseValidation ==
    /\ [](call.fn = "BaseEndpoint.call" =>
            /\ (pc = "done" /\ result.state = "thrown") =>
                  /\ result.value = ResponseValidationError
                  /\ result.value.cls = "ApiError"
                  /\ result.value.zodError = ZodError
                  /\ inFlight = 0
                  /\ metrics[Len(metrics)].success
            /\ (pc = "done" /\ result.state = "returned") =>
                  result.value \in {DecodedData, ParsedData}
            /\ result.state = "returned" => pc = "done"
            /\ (pc = "failed" /\ result.state # "none") =>
                  result = [state |-> "thrown", value |-> thrown])
    /\ [][result.state # "none" =>
            /\ attempts' = attempts
            /\ sent' = sent
            /\ metrics' = metrics
            /\ pc' = pc
            /\ result' = result]_vars

\* C31 witness: a POST endpoint's first attempt succeeded with a retry
\* remaining, the response failed the response schema and the call has
\* failed with the ApiError
C31_Witness ==
    /\ call.fn = "BaseEndpoint.call"
    /\ call.method = "POST"
    /\ pc = "done"
    /\ attempts = 1
    /\ attempt < retry.maxRetries
    /\ result.state = "thrown"
    /\ result.value = ResponseValidationError

\* C32: when retry.shouldRetry is configured it decides whether a failed
\* attempt is retried: with a predicate that answers false to every failure
\* no attempt is followed by a backoff sleep or by another attempt.
C32_ShouldRetryDecides ==
    retry.shouldRetry = "never" =>
       /\ pc # "sleep"
       /\ attempts <= 1

\* the last n elements of a list, all of it when it has fewer
LastOf(list, n) ==
    IF Len(list) <= n THEN list ELSE SubSeq(list, Len(list) - n + 1, Len(list))

\* C33: after any sequence of collect, getMetrics and clear calls (and of
\* changes the caller makes to a list getMetrics returned) the collector
\* holds at most maxEntries records, the most recently collected ones in
\* collection order; getMetrics returns a list of its own with the records
\* held at that moment; clear leaves the collector empty.
C33_BoundedMostRecent ==
    /\ Len(collector.metrics) <= collector.maxEntries
    /\ collector.metrics = LastOf(collector.collected, collector.maxEntries)
    /\ collector.returned.given =>
          /\ ~collector.returned.aliased
          /\ \E k \in 0..Len(collector.metrics) :
               collector.returned.items = SubSeq(collector.metrics, 1, k)
    /\ collector.collected = <<>> => collector.metrics = <<>>

\* C33 witness: a collector of two entries has evicted its oldest record
\* and the caller has emptied the list getMetrics returned
C33_Witness ==
    /\ collector.maxEntries = 2
    /\ Len(collector.collected) = 3
    /\ collector.collected[1] # collector.collected[2]
    /\ collector.metrics = Tail(collector.collected)
    /\ collector.returned.given
    /\ collector.returned.items = <<>>

\* the sum of the retained durations as a real number
RECURSIVE ExactSum(_)
ExactSum(ms) ==
    IF ms = <<>> THEN 0 ELSE Head(ms).durationMs + ExactSum(Tail(ms))

\* total = retained = successful + failed, successful counts the retained
\* successes, min and max are the least and greatest retained duration
SummaryCounts(sm, ms) ==
    /\ sm.total = Len(ms)
    /\ sm.total = sm.successful + sm.failed
    /\ sm.successful = Cardinality({i \in 1..Len(ms) : ms[i].success})
    /\ ms # <<>> =>
         /\ \E i \in 1..Len(ms) : ms[i].durationMs = sm.minDurationMs
         /\ \E i \in 1..Len(ms) : ms[i].durationMs = sm.maxDurationMs
         /\ \A i \in 1..Len(ms) :
              /\ sm.minDurationMs <= ms[i].durationMs
              /\ ms[i].durationMs <= sm.maxDurationMs
    /\ ms = <<>> =>
         /\ sm.total = 0 /\ sm.successful = 0 /\ sm.failed = 0
         /\ sm.avgDurationMs = Zero
         /\ sm.minDurationMs = 0 /\ sm.maxDurationMs = 0

\* minDurationMs <= avgDurationMs <= maxDurationMs
AvgWithinMinMax(sm) ==
    /\ NatLeFloat(sm.minDurationMs, sm.avgDurationMs)
    /\ FloatLeNat(sm.avgDurationMs, sm.maxDurationMs)

\* C34 as stated: the summary getSummary returns has total = number of
\* retained records = successful + failed, successful = number of retained
\* successes, and for every collector that is not empty
\* min <= avg <= max with min and max durations of retained records; for
\* an empty collector every field is 0.
C34_SummaryAlwaysOrdered ==
    collector.summary.given =>
      /\ SummaryCounts(collector.summary, collector.metrics)
      /\ collector.metrics # <<>> => AvgWithinMinMax(collector.summary)

\* C34 amended: the counts, min, max and the empty summary are as stated;
\* min <= avg <= max holds whenever the sum of the retained durations is a
\* number (no addition rounds), and then avg is the number nearest to the
\* real mean.
C34_SummaryConsistent ==
    collector.summary.given =>
      LET ms == collector.metrics
          sm == collector.summary
      IN  /\ SummaryCounts(sm, ms)
          /\ (ms # <<>> /\ ExactSum(ms) < Pow2(MantissaBits)) =>
               /\ AvgWithinMinMax(sm)
               /\ sm.avgDurationMs = FloatDiv(ExactSum(ms), Len(ms))

\* C34 witness: the summary of a collector that evicted a record and holds
\* one success and one failure of different durations, mean 20
C34_Witness ==
    /\ collector.summary.given
    /\ Len(collector.collected) = 3
    /\ collector.summary.total = 2
    /\ collector.summary.successful = 1
    /\ collector.summary.minDurationMs = 10
    /\ collector.summary.maxDurationMs = 30
    /\ collector.summary.avgDurationMs = [m |-> 20 * Pow2(MantissaBits - 5), e |-> 5 - MantissaBits]

\* the headers the r-th call has after k pre-send hooks when no other call
\* is in progress
RECURSIVE AloneHeaders(_, _)
AloneHeaders(r, k) ==
    IF k = 0
      THEN AuthHeaders(auth, HeaderMerge(headers, options.headers))
      ELSE HeaderMerge(AloneHeaders(r, k - 1),
                       [h \in {"X-Hook"} |-> HookStamp(r, k)])

\* the URL the r-th call sends to when no other call is in progress
AloneUrl(r) ==
    IF auth = "ApiKeyAuth.query" THEN ReqUrlOverride(ReqUrl(r)) ELSE ReqUrl(r)

\* C35: calls in progress at the same time on one client share no mutable
\* request state: the client's headers, the base-URL map and the caller's
\* options stay as they were, every call has a headers object of its own,
\* and every call sends the URL and the headers it would send if it were
\* the only call, whatever the interleaving.
C35_NoSharedRequestState ==
    /\ heap[ClientRef] = headers
    /\ heap[OptionsRef] = options.headers
    /\ baseUrls = SampleBaseUrls
    /\ \A r \in 1..MaxRequests :
         /\ reqs[r].pc # "new" =>
              /\ reqs[r].headers \notin {ClientRef, OptionsRef}
              /\ \A q \in 1..MaxRequests :
                   (q # r /\ reqs[q].pc # "new") =>
                      reqs[q].headers # reqs[r].headers
         /\ reqs[r].pc = "hooks" =>
              heap[reqs[r].headers] = AloneHeaders(r, reqs[r].hooksRun)
         /\ reqs[r].pc = "sent" =>
              /\ reqs[r].sent.headers = AloneHeaders(r, interceptors.before)
              /\ reqs[r].sent.url = AloneUrl(r)

\* C35 witness: two calls were sent after their hooks had run alternately,
\* under a provider that replaces init.headers
C35_Witness ==
    /\ auth = "ApiKeyAuth.header"
    /\ interceptors.before = MaxHooks
    /\ options.headers # NoHeaders
    /\ reqs[1].pc = "sent"
    /\ reqs[2].pc = "sent"
    /\ reqs[1].headers > reqs[2].headers
    /\ reqs[1].sent.headers # reqs[2].sent.headers

\* the method the claim gives for a shorthand
C36_Method ==
    CASE call.name = "get" -> "GET"
      [] call.name = "post" -> "POST"
      [] call.name = "put" -> "PUT"
      [] call.name = "patch" -> "PATCH"
      [] call.name = "delete" -> "DELETE"

\* the body the claim gives for a shorthand
C36_Body ==
    IF call.name \in {"post", "put", "patch"} THEN call.bodyArg ELSE NoBody

\* C36: a shorthand hands request the method of its name, its body argument
\* (none for get and delete) and its options unchanged, and does nothing
\* else: when request starts, nothing of the call has happened yet, and all
\* that follows is request's own behaviour for that method, body and options.
C36_ShorthandIsRequest ==
    (call.fn = "shorthand" /\ pc # "shorthand") =>
       /\ RequestMethods = {C36_Method}
       /\ body = C36_Body
       /\ options = call.options
       /\ pc = "idle" =>
            /\ attempts = 0 /\ authCalls = 0 /\ beforeCalls = 0
            /\ metrics = <<>> /\ sent = {} /\ raised = NoError
       /\ pc # "idle" => method = C36_Method
       /\ pc \notin {"idle", "failed"} =>
            init.body = SerializeBody(C36_Body, RequestHeaders)

\* C36 witness: put with a body has failed after its one attempt, the body
\* serialized as request serializes it
C36_Witness ==
    /\ call.fn = "shorthand"
    /\ call.name = "put"
    /\ call.bodyArg # NoBody
    /\ method = "PUT"
    /\ init.body # NoBody
    /\ pc = "failed"
    /\ attempts = 1

\* C37: every request that was started eventually returns or raises, given
\* that every auth apply, hook, network call, body read and backoff sleep it
\* awaits completes.
C37_Terminates == (pc # "idle") ~> Settled

\* C37 witness: a request has settled after using its whole retry budget
C37_Witness ==
    /\ Settled
    /\ retry.maxRetries = MaxRetriesBound
    /\ attempts = MaxRetriesBound + 1
    /\ attempt = MaxRetriesBound

\* an attempt is between its start and its end
AttemptRunning == pc \in {"fetch", "text", "decode", "after"}

\* C38, the part about the pending timer: a timer is pending only while an
\* attempt runs, never during a backoff sleep or once the request has
\* returned or raised.
C38_NoTimerOutsideAttempt == timerArmed => AttemptRunning

\* C38 as stated: the timer of an attempt is disarmed as soon as the attempt
\* ends, none is pending during a sleep or after the request has settled,
\* and the timer armed for attempt k never cancels attempt k + 1: an attempt
\* that runs cancelled by a timeout was cancelled by its own timer.
C38_TimerDiesWithAttempt ==
    /\ C38_NoTimerOutsideAttempt
    /\ (AttemptRunning /\ ctrlAborted /\ ctrlReason.name = "TimeoutError") =>
          ctrlReason.at = attempts

FailedAfterOk == pc = "failed" /\ ResOk(resStatus) /\ InRetryMethods

\* C40 as stated: for a method in retryMethods with retries remaining, an
\* attempt that received a 2xx response and then failed in body decoding or
\* in a post-receive hook is retried: such a request raises only when no
\* retry remains.
C40_PostResponseFailureRetried ==
    FailedAfterOk => attempt >= retry.maxRetries

\* C40 amended: such a failure goes through the same canRetry as a network
\* failure: it is retried while retries remain unless the failure is an
\* error named AbortError or TimeoutError (a cancellation or a timeout that
\* breaks the body read) or a falsy value; a request that sleeps after a
\* 2xx response has retries remaining and sends the request again.
C40_PostResponseFailureEligible ==
    /\ (FailedAfterOk /\ attempt < retry.maxRetries) =>
          \/ ~raised.truthy
          \/ raised.name \in {"AbortError", "TimeoutError"}
    /\ (FailedAfterOk /\ raised \in {HookError(attempts), DecodeError(attempts)}) =>
          /\ attempt = retry.maxRetries
          /\ attempts = retry.maxRetries + 1
          /\ thrown = raised
    /\ (pc = "sleep" /\ ResOk(resStatus)) =>
          /\ InRetryMethods
          /\ attempt < retry.maxRetries
          /\ raised.truthy
          /\ raised.name \notin {"AbortError", "TimeoutError"}
          /\ Len(metrics) = attempts
          /\ ~metrics[attempts].success

\* C40 witness: a POST has used its whole retry budget, every attempt left a
\* failure record without a status, and the last one got a 2xx response and
\* failed in the post-receive hook, whose error the request raised
C40_Witness ==
    /\ method = "POST"
    /\ retry.maxRetries = MaxRetriesBound
    /\ pc = "failed"
    /\ attempts = MaxRetriesBound + 1
    /\ ResOk(resStatus)
    /\ \A i \in 1..attempts : metrics[i] = FailureRecord(HookError(i))
    /\ thrown = HookError(attempts)

====
